---- MODULE Spec2Model ----
(***************************************************************************)
(* Collaborative session layer of the Excalidraw MCP server:               *)
(*   - CommandService (multi-room): room registry, broadcast, export       *)
(*     correlator                                                          *)
(*   - SceneService (multi-room): per-room scene cache                     *)
(*   - SceneService (single-room): scene with undo/redo history            *)
(***************************************************************************)
EXTENDS Integers, Sequences, FiniteSets, TLC

(***************************************************************************)
(* Identities and bounds                                                   *)
(***************************************************************************)
\* WebSocket connections (WSContext objects)
Conns == {"c1", "c2", "c3"}
\* Scene ids a client can name; the empty string is a string like any other
RoomIds == {"", "A", "B"}
\* Values of crypto.randomUUID()
RequestIds == {"r1", "r2"}
\* JavaScript's undefined, for Map.get misses and absent optional arguments
Undefined == "<undefined>"
\* Longest send log kept per connection
MaxOutbox == 1

\* JavaScript truthiness of a string-or-undefined value
Truthy(v) == v # Undefined /\ v # ""

\* Map.get
MapGet(m, k) == IF k \in DOMAIN m THEN m[k] ELSE Undefined
\* Map.set
MapSet(m, k, v) == [x \in DOMAIN m \cup {k} |-> IF x = k THEN v ELSE m[x]]
\* Map.delete
MapDelete(m, k) == [x \in DOMAIN m \ {k} |-> m[x]]
\* new Map()
EmptyMap == [x \in {} |-> Undefined]

VARIABLES
  rooms,          \* CommandService.rooms: sceneId -> set of connections
  clientRooms,    \* CommandService.clientRooms: connection -> sceneId
  pendingExports, \* CommandService.pendingExports: requestId -> [timeout]
  timers,         \* armed setTimeout handles (one per export request)
  futures,        \* promises returned by requestExport: requestId -> outcome
  outbox,         \* per connection, the data passed to ws.send, in order
  design,         \* which SceneService the process runs: "multi" or "single"
  scenes,         \* SceneService (multi-room).scenes: sceneId -> SceneData
  elements,       \* SceneService (single-room).elements
  appState,       \* SceneService (single-room).appState
  files,          \* SceneService (single-room).files
  historyStack,   \* SceneService (single-room).historyStack (undo)
  redoStack,      \* SceneService (single-room).redoStack
  maxSize,        \* SceneService (single-room).historyConfig.maxSize
  now,            \* the clock Date.now() reads
  last,           \* the operation performed last, its arguments and result
  handled,        \* per connection, how many received messages its client handled
  uplink,         \* per connection, frames its client sent that the server has not read
  mounted,        \* useWebSocket: the effect of the hook is active
  run,            \* useWebSocket: how many times the effect has run
  isClosingRef,   \* useWebSocket: isClosingRef.current
  reconnectAttempts,   \* useWebSocket: reconnectAttempts.current
  wsRef,          \* useWebSocket: wsRef.current, a socket number or 0 for null
  sockets,        \* the WebSockets the hook created, in order: [state, run]
  hookTimers,     \* armed setTimeout handles of the hook
  reconnectTimeoutRef  \* useWebSocket: reconnectTimeoutRef.current

regVars == <<rooms, clientRooms, pendingExports, timers, futures, outbox>>
singleVars == <<elements, appState, files, historyStack, redoStack, maxSize, now>>
hookVars == <<mounted, run, isClosingRef, reconnectAttempts, wsRef, sockets,
              hookTimers, reconnectTimeoutRef>>
clientVars == <<handled, uplink, hookVars>>
storeVars == <<clientVars, design, scenes, elements, appState, files, historyStack,
               redoStack, maxSize, now>>
vars == <<rooms, clientRooms, pendingExports, timers, futures, outbox,
          design, scenes, elements, appState, files, historyStack, redoStack,
          maxSize, now, last, clientVars>>

\* useRef<...>(undefined): no timer handle
NoTimer == [kind |-> "none"]

\* The clients before anything happened: nothing handled or sent, the hook
\* not yet mounted
InitClient ==
  /\ handled = [c \in Conns |-> 0]
  /\ uplink = [c \in Conns |-> << >>]
  /\ mounted = FALSE
  /\ run = 0
  /\ isClosingRef = FALSE
  /\ reconnectAttempts = 0
  /\ wsRef = 0
  /\ sockets = << >>
  /\ hookTimers = {}
  /\ reconnectTimeoutRef = NoTimer

(***************************************************************************)
(* CommandService (multi-room): registry                                   *)
(***************************************************************************)
\* The registry half of the service as a value: [rooms, clientRooms]
Registry == [rooms |-> rooms, clientRooms |-> clientRooms]

leaveCurrentRoom_KeepEmptyRoom(reg, ws) ==
  LET currentRoom == MapGet(reg.clientRooms, ws) IN
  IF Truthy(currentRoom)
  THEN [rooms |-> IF currentRoom \in DOMAIN reg.rooms
                  THEN MapSet(reg.rooms, currentRoom, reg.rooms[currentRoom] \ {ws})
                  ELSE reg.rooms,
        clientRooms |-> MapDelete(reg.clientRooms, ws)]
  ELSE reg

leaveCurrentRoom(reg, ws) ==
  LET currentRoom == MapGet(reg.clientRooms, ws) IN
  IF Truthy(currentRoom)
  THEN [rooms |-> IF currentRoom \in DOMAIN reg.rooms
                  THEN LET room == reg.rooms[currentRoom] \ {ws} IN
                       IF Cardinality(room) = 0
                       THEN MapDelete(reg.rooms, currentRoom)
                       ELSE MapSet(reg.rooms, currentRoom, room)
                  ELSE reg.rooms,
        clientRooms |-> MapDelete(reg.clientRooms, ws)]
  ELSE reg

joinRoom(reg, sceneId, ws) ==
  LET left == leaveCurrentRoom(reg, ws)
      room == IF sceneId \in DOMAIN left.rooms THEN left.rooms[sceneId] ELSE {}
  IN [rooms |-> MapSet(left.rooms, sceneId, room \cup {ws}),
      clientRooms |-> MapSet(left.clientRooms, ws, sceneId)]

unregisterClient(reg, ws) == leaveCurrentRoom(reg, ws)

getClientRoom(ws) == MapGet(clientRooms, ws)

getRoomClientCount(sceneId) ==
  IF sceneId \in DOMAIN rooms THEN Cardinality(rooms[sceneId]) ELSE 0

(***************************************************************************)
(* CommandService (multi-room): broadcast                                  *)
(***************************************************************************)
\* JSON.stringify(message): the text handed to ws.send
JSONStringify(message) == [json |-> message]

\* client.send(data): one more entry in that connection's send log
Send_Prepend(ob, client, data) == [ob EXCEPT ![client] = <<data>> \o @]

Send(ob, client, data) == [ob EXCEPT ![client] = Append(@, data)]

\* for (const client of room) { if (client !== exclude) client.send(data) }
RECURSIVE SendLoop(_, _, _, _)
SendLoop(ob, todo, data, exclude) ==
  IF todo = {} THEN ob
  ELSE LET client == CHOOSE c \in todo : TRUE IN
       SendLoop(IF client # exclude THEN Send(ob, client, data) ELSE ob,
                todo \ {client}, data, exclude)

RECURSIVE SendLoop_IgnoreExclude(_, _, _, _)
SendLoop_IgnoreExclude(ob, todo, data, exclude) ==
  IF todo = {} THEN ob
  ELSE LET client == CHOOSE c \in todo : TRUE IN
       SendLoop_IgnoreExclude(Send(ob, client, data), todo \ {client}, data, exclude)

broadcastToRoom_IgnoreExclude(ob, rs, sceneId, message, exclude) ==
  IF sceneId \notin DOMAIN rs THEN ob
  ELSE SendLoop_IgnoreExclude(ob, rs[sceneId], JSONStringify(message), exclude)

broadcastToRoom(ob, rs, sceneId, message, exclude) ==
  IF sceneId \notin DOMAIN rs THEN ob
  ELSE SendLoop(ob, rs[sceneId], JSONStringify(message), exclude)

\* The connections a broadcast to sceneId would send to
Recipients(rs, sceneId, exclude) ==
  IF sceneId \in DOMAIN rs THEN rs[sceneId] \ {exclude} ELSE {}

\* Room for one more entry in the send log of every recipient
OutboxRoom(S) == \A c \in S : Len(outbox[c]) < MaxOutbox

(***************************************************************************)
(* Registry and broadcast actions                                          *)
(***************************************************************************)
JoinRoom(sceneId, ws) ==
  /\ rooms' = joinRoom(Registry, sceneId, ws).rooms
  /\ clientRooms' = joinRoom(Registry, sceneId, ws).clientRooms
  /\ last' = [op |-> "joinRoom", sceneId |-> sceneId, ws |-> ws,
              left |-> MapGet(clientRooms, ws)]
  /\ UNCHANGED <<pendingExports, timers, futures, outbox>>
  /\ UNCHANGED storeVars

LeaveCurrentRoom_DeleteScene(ws) ==
  /\ rooms' = leaveCurrentRoom(Registry, ws).rooms
  /\ clientRooms' = leaveCurrentRoom(Registry, ws).clientRooms
  /\ last' = [op |-> "leaveCurrentRoom", ws |-> ws,
              left |-> MapGet(clientRooms, ws)]
  /\ scenes' = IF MapGet(clientRooms, ws) \in DOMAIN rooms \ DOMAIN rooms'
               THEN MapDelete(scenes, MapGet(clientRooms, ws))
               ELSE scenes
  /\ UNCHANGED <<pendingExports, timers, futures, outbox>>
  /\ UNCHANGED <<clientVars, design, singleVars>>

LeaveCurrentRoom(ws) ==
  /\ rooms' = leaveCurrentRoom(Registry, ws).rooms
  /\ clientRooms' = leaveCurrentRoom(Registry, ws).clientRooms
  /\ last' = [op |-> "leaveCurrentRoom", ws |-> ws,
              left |-> MapGet(clientRooms, ws)]
  /\ UNCHANGED <<pendingExports, timers, futures, outbox>>
  /\ UNCHANGED storeVars

UnregisterClient(ws) ==
  /\ rooms' = unregisterClient(Registry, ws).rooms
  /\ clientRooms' = unregisterClient(Registry, ws).clientRooms
  /\ last' = [op |-> "unregisterClient", ws |-> ws,
              left |-> MapGet(clientRooms, ws)]
  /\ UNCHANGED <<pendingExports, timers, futures, outbox>>
  /\ UNCHANGED storeVars

BroadcastToRoom(sceneId, message, exclude) ==
  /\ OutboxRoom(Recipients(rooms, sceneId, exclude))
  /\ outbox' = broadcastToRoom(outbox, rooms, sceneId, message, exclude)
  /\ last' = [op |-> "broadcastToRoom", sceneId |-> sceneId,
              message |-> message, exclude |-> exclude]
  /\ UNCHANGED <<rooms, clientRooms, pendingExports, timers, futures>>
  /\ UNCHANGED storeVars

(***************************************************************************)
(* CommandService (multi-room): export correlator                          *)
(***************************************************************************)
\* The correlator half of the service as a value
Exports == [pendingExports |-> pendingExports, timers |-> timers, futures |-> futures]

\* new Promise(...): unsettled, resolve/reject not yet called
NewFuture == [status |-> "pending", value |-> [none |-> TRUE], calls |-> 0]

\* A call of the promise's resolve callback: only the first call of resolve
\* or reject settles a promise
resolve(fs, requestId, result) ==
  [fs EXCEPT ![requestId] =
     [status |-> IF @.status = "pending" THEN "resolved" ELSE @.status,
      value |-> IF @.status = "pending" THEN result ELSE @.value,
      calls |-> @.calls + 1]]

\* A call of the promise's reject callback
reject(fs, requestId, error) ==
  [fs EXCEPT ![requestId] =
     [status |-> IF @.status = "pending" THEN "rejected" ELSE @.status,
      value |-> IF @.status = "pending" THEN [error |-> error] ELSE @.value,
      calls |-> @.calls + 1]]

\* clearTimeout(handle)
clearTimeout(ts, handle) == ts \ {handle}

registerExport_NoTimer(ex, requestId) ==
  [pendingExports |-> MapSet(ex.pendingExports, requestId, [timeout |-> requestId]),
   timers |-> ex.timers,
   futures |-> MapSet(ex.futures, requestId, NewFuture)]

registerExport_ReplacePending(ex, requestId) ==
  [pendingExports |-> MapSet(EmptyMap, requestId, [timeout |-> requestId]),
   timers |-> ex.timers \cup {requestId},
   futures |-> MapSet(ex.futures, requestId, NewFuture)]

\* The body of requestExport once the room is known to be non-empty
registerExport(ex, requestId) ==
  [pendingExports |-> MapSet(ex.pendingExports, requestId, [timeout |-> requestId]),
   timers |-> ex.timers \cup {requestId},
   futures |-> MapSet(ex.futures, requestId, NewFuture)]

exportTimeout_KeepPending(ex, requestId) ==
  [pendingExports |-> ex.pendingExports,
   timers |-> ex.timers \ {requestId},
   futures |-> reject(ex.futures, requestId, "Export request timed out")]

exportTimeout_NoReject(ex, requestId) ==
  [pendingExports |-> MapDelete(ex.pendingExports, requestId),
   timers |-> ex.timers \ {requestId},
   futures |-> ex.futures]

\* The setTimeout callback of requestExport
exportTimeout(ex, requestId) ==
  [pendingExports |-> MapDelete(ex.pendingExports, requestId),
   timers |-> ex.timers \ {requestId},
   futures |-> reject(ex.futures, requestId, "Export request timed out")]

handleExportResponse_NoClearTimeout(ex, requestId, data, mimeType) ==
  IF requestId \notin DOMAIN ex.pendingExports THEN ex
  ELSE [pendingExports |-> MapDelete(ex.pendingExports, requestId),
        timers |-> ex.timers,
        futures |-> resolve(ex.futures, requestId,
                            [data |-> data, mimeType |-> mimeType])]

handleExportResponse_KeepPending(ex, requestId, data, mimeType) ==
  IF requestId \notin DOMAIN ex.pendingExports THEN ex
  ELSE LET pending == ex.pendingExports[requestId] IN
       [pendingExports |-> ex.pendingExports,
        timers |-> clearTimeout(ex.timers, pending.timeout),
        futures |-> resolve(ex.futures, requestId,
                            [data |-> data, mimeType |-> mimeType])]

handleExportResponse(ex, requestId, data, mimeType) ==
  IF requestId \notin DOMAIN ex.pendingExports THEN ex
  ELSE LET pending == ex.pendingExports[requestId] IN
       [pendingExports |-> MapDelete(ex.pendingExports, requestId),
        timers |-> clearTimeout(ex.timers, pending.timeout),
        futures |-> resolve(ex.futures, requestId,
                            [data |-> data, mimeType |-> mimeType])]

cancelAllExports_FirstOnly(ex) ==
  IF DOMAIN ex.pendingExports = {} THEN ex
  ELSE LET requestId == CHOOSE r \in DOMAIN ex.pendingExports : TRUE
           pending == ex.pendingExports[requestId]
       IN [pendingExports |-> MapDelete(ex.pendingExports, requestId),
           timers |-> clearTimeout(ex.timers, pending.timeout),
           futures |-> reject(ex.futures, requestId, "Export cancelled")]

\* for (const [requestId, pending] of this.pendingExports) { ... }
RECURSIVE cancelAllExports(_)
cancelAllExports(ex) ==
  IF DOMAIN ex.pendingExports = {} THEN ex
  ELSE LET requestId == CHOOSE r \in DOMAIN ex.pendingExports : TRUE
           pending == ex.pendingExports[requestId]
       IN cancelAllExports(
            [pendingExports |-> MapDelete(ex.pendingExports, requestId),
             timers |-> clearTimeout(ex.timers, pending.timeout),
             futures |-> reject(ex.futures, requestId, "Export cancelled")])

ExportRequestMessage(format, requestId) ==
  [type |-> "export_request", payload |-> [format |-> format, requestId |-> requestId]]

(***************************************************************************)
(* Export correlator actions                                               *)
(***************************************************************************)
RequestExport_NoRoomCheck(sceneId, format) ==
  \E requestId \in RequestIds \ DOMAIN futures :
    LET ex == registerExport(Exports, requestId) IN
    /\ pendingExports' = ex.pendingExports
    /\ timers' = ex.timers
    /\ futures' = ex.futures
    /\ outbox' = broadcastToRoom(outbox, rooms, sceneId,
                                 ExportRequestMessage(format, requestId), Undefined)
    /\ last' = [op |-> "requestExport", sceneId |-> sceneId, format |-> format,
                requestId |-> requestId, threw |-> Undefined]
    /\ UNCHANGED <<rooms, clientRooms>>
    /\ UNCHANGED storeVars

RequestExport(sceneId, format) ==
  IF sceneId \notin DOMAIN rooms \/ Cardinality(rooms[sceneId]) = 0
  THEN /\ last' = [op |-> "requestExport", sceneId |-> sceneId, format |-> format,
                   requestId |-> Undefined,
                   threw |-> "No connected clients in room"]
       /\ UNCHANGED regVars
       /\ UNCHANGED storeVars
  ELSE \E requestId \in RequestIds \ DOMAIN futures :
         LET ex == registerExport(Exports, requestId) IN
         /\ pendingExports' = ex.pendingExports
         /\ timers' = ex.timers
         /\ futures' = ex.futures
         /\ outbox' = broadcastToRoom(outbox, rooms, sceneId,
                                      ExportRequestMessage(format, requestId), Undefined)
         /\ last' = [op |-> "requestExport", sceneId |-> sceneId, format |-> format,
                     requestId |-> requestId, threw |-> Undefined]
         /\ UNCHANGED <<rooms, clientRooms>>
         /\ UNCHANGED storeVars

HandleExportResponse(requestId, data, mimeType) ==
  LET ex == handleExportResponse(Exports, requestId, data, mimeType) IN
  /\ pendingExports' = ex.pendingExports
  /\ timers' = ex.timers
  /\ futures' = ex.futures
  /\ last' = [op |-> "handleExportResponse", requestId |-> requestId,
              data |-> data, mimeType |-> mimeType,
              pending |-> requestId \in DOMAIN pendingExports]
  /\ UNCHANGED <<rooms, clientRooms, outbox>>
  /\ UNCHANGED storeVars

\* The export timer of requestId fires
ExportTimeout(requestId) ==
  /\ requestId \in timers
  /\ LET ex == exportTimeout(Exports, requestId) IN
     /\ pendingExports' = ex.pendingExports
     /\ timers' = ex.timers
     /\ futures' = ex.futures
  /\ last' = [op |-> "exportTimeout", requestId |-> requestId]
  /\ UNCHANGED <<rooms, clientRooms, outbox>>
  /\ UNCHANGED storeVars

CancelAllExports ==
  LET ex == cancelAllExports(Exports) IN
  /\ pendingExports' = ex.pendingExports
  /\ timers' = ex.timers
  /\ futures' = ex.futures
  /\ last' = [op |-> "cancelAllExports"]
  /\ UNCHANGED <<rooms, clientRooms, outbox>>
  /\ UNCHANGED storeVars

(***************************************************************************)
(* Scene data                                                              *)
(***************************************************************************)
\* Element ids a caller can name
ElemIds == {"a", "b"}
\* Element versions are kept below this
MaxVersion == 2
\* Elements held by the scene store, summed over its scenes
MaxElems == 2
\* History snapshots taken in one run (readings of Date.now())
MaxClock == 3
\* Largest historyConfig.maxSize a SceneService is constructed with
MaxHistory == 2
\* DEFAULT_HISTORY_CONFIG.maxSize
DefaultMaxSize == 100

\* { ...a, ...b }
Spread(a, b) ==
  [k \in DOMAIN a \cup DOMAIN b |-> IF k \in DOMAIN b THEN b[k] ELSE a[k]]

\* { viewBackgroundColor: '#ffffff' }
DefaultAppState == [viewBackgroundColor |-> "#ffffff"]

\* The scene a reset stores and an update of an unwritten scene starts from
EmptyScene == [elements |-> << >>, appState |-> DefaultAppState, files |-> EmptyMap]

\* An element as a client creates it
NewElement(id, version) == [id |-> id, version |-> version, isDeleted |-> FALSE]

\* elements.findIndex((el) => el.id === elementId), 1-based, 0 for -1
FindIndex(es, elementId) ==
  LET hits == {i \in 1..Len(es) : es[i].id = elementId} IN
  IF hits = {} THEN 0 ELSE CHOOSE i \in hits : \A j \in hits : i <= j

\* elements.filter((el) => !el.isDeleted)
RECURSIVE NotDeleted(_)
NotDeleted(es) ==
  IF es = << >> THEN << >>
  ELSE IF Head(es).isDeleted THEN NotDeleted(Tail(es))
       ELSE <<Head(es)>> \o NotDeleted(Tail(es))

\* [...elements.slice(0, index), updated, ...elements.slice(index + 1)]
ReplaceAt(es, index, updated) ==
  [i \in 1..Len(es) |-> IF i = index THEN updated ELSE es[i]]

\* { ...element, ...updates, version: element.version + 1 }
MergedElement_KeepSuppliedVersion(element, updates) ==
  Spread(Spread(element, [version |-> element.version + 1]), updates)

MergedElement(element, updates) ==
  Spread(Spread(element, updates), [version |-> element.version + 1])

(***************************************************************************)
(* SceneService (multi-room)                                               *)
(***************************************************************************)
getElements(sc, sceneId) ==
  IF sceneId \notin DOMAIN sc THEN << >> ELSE NotDeleted(sc[sceneId].elements)

getAllElements(sc, sceneId) ==
  IF sceneId \notin DOMAIN sc THEN << >> ELSE sc[sceneId].elements

getAppState_NoDefault(sc, sceneId) ==
  IF sceneId \notin DOMAIN sc THEN EmptyMap ELSE sc[sceneId].appState

getAppState(sc, sceneId) ==
  IF sceneId \notin DOMAIN sc THEN DefaultAppState ELSE sc[sceneId].appState

getFiles(sc, sceneId) ==
  IF sceneId \notin DOMAIN sc THEN EmptyMap ELSE sc[sceneId].files

updateScene_ReplaceMaps(sc, sceneId, data) ==
  LET existing == IF sceneId \in DOMAIN sc THEN sc[sceneId] ELSE EmptyScene
      updated ==
        [elements |-> IF "elements" \in DOMAIN data
                      THEN data.elements ELSE existing.elements,
         appState |-> IF "appState" \in DOMAIN data
                      THEN data.appState ELSE existing.appState,
         files |-> IF "files" \in DOMAIN data
                   THEN data.files ELSE existing.files]
  IN MapSet(sc, sceneId, updated)

updateScene(sc, sceneId, data) ==
  LET existing == IF sceneId \in DOMAIN sc THEN sc[sceneId] ELSE EmptyScene
      updated ==
        [elements |-> IF "elements" \in DOMAIN data
                      THEN data.elements ELSE existing.elements,
         appState |-> IF "appState" \in DOMAIN data
                      THEN Spread(existing.appState, data.appState)
                      ELSE existing.appState,
         files |-> IF "files" \in DOMAIN data
                   THEN Spread(existing.files, data.files)
                   ELSE existing.files]
  IN MapSet(sc, sceneId, updated)

resetScene(sc, sceneId) == MapSet(sc, sceneId, EmptyScene)

addElement_Prepend(sc, sceneId, element) ==
  LET es == IF sceneId \in DOMAIN sc
            THEN <<element>> \o sc[sceneId].elements ELSE <<element>>
  IN updateScene(sc, sceneId, [elements |-> es])

addElement(sc, sceneId, element) ==
  LET es == IF sceneId \in DOMAIN sc
            THEN Append(sc[sceneId].elements, element) ELSE <<element>>
  IN updateScene(sc, sceneId, [elements |-> es])

addElements(sc, sceneId, newElements) ==
  LET es == IF sceneId \in DOMAIN sc
            THEN sc[sceneId].elements \o newElements ELSE newElements
  IN updateScene(sc, sceneId, [elements |-> es])

updateElement_Upsert(sc, sceneId, elementId, updates) ==
  LET es == getAllElements(sc, sceneId)
      index == FindIndex(es, elementId)
  IN [scenes |-> updateScene(sc, sceneId,
                   [elements |->
                      IF index = 0
                      THEN Append(es, Spread(NewElement(elementId, 1), updates))
                      ELSE ReplaceAt(es, index, MergedElement(es[index], updates))]),
      ok |-> TRUE]

\* The result pairs the new scenes map with the boolean the method returns
updateElement(sc, sceneId, elementId, updates) ==
  IF sceneId \notin DOMAIN sc THEN [scenes |-> sc, ok |-> FALSE]
  ELSE LET es == sc[sceneId].elements
           index == FindIndex(es, elementId)
       IN IF index = 0 THEN [scenes |-> sc, ok |-> FALSE]
          ELSE [scenes |-> updateScene(sc, sceneId,
                             [elements |->
                                ReplaceAt(es, index, MergedElement(es[index], updates))]),
                ok |-> TRUE]

deleteElement_Remove(sc, sceneId, elementId) ==
  IF sceneId \notin DOMAIN sc THEN [scenes |-> sc, ok |-> FALSE]
  ELSE LET es == sc[sceneId].elements
           index == FindIndex(es, elementId)
       IN IF index = 0 THEN [scenes |-> sc, ok |-> FALSE]
          ELSE [scenes |-> updateScene(sc, sceneId,
                             [elements |-> SubSeq(es, 1, index - 1)
                                             \o SubSeq(es, index + 1, Len(es))]),
                ok |-> TRUE]

deleteElement(sc, sceneId, elementId) ==
  updateElement(sc, sceneId, elementId, [isDeleted |-> TRUE])

addFiles(sc, sceneId, fs) ==
  updateScene(sc, sceneId, [files |-> Spread(getFiles(sc, sceneId), fs)])

(***************************************************************************)
(* SceneService (multi-room): actions                                      *)
(***************************************************************************)
RECURSIVE SumLen(_, _)
SumLen(sc, ids) ==
  IF ids = {} THEN 0
  ELSE LET id == CHOOSE x \in ids : TRUE IN
       Len(sc[id].elements) + SumLen(sc, ids \ {id})

\* The store stays within the element and version bounds
WithinBounds(sc) ==
  /\ SumLen(sc, DOMAIN sc) <= MaxElems
  /\ \A id \in DOMAIN sc : \A i \in 1..Len(sc[id].elements) :
       sc[id].elements[i].version <= MaxVersion

Multi(sc, entry) ==
  /\ design = "multi"
  /\ WithinBounds(sc)
  /\ scenes' = sc
  /\ last' = entry
  /\ UNCHANGED <<clientVars, design, singleVars>>
  /\ UNCHANGED regVars

UpdateScene(sceneId, data) ==
  Multi(updateScene(scenes, sceneId, data),
        [op |-> "updateScene", sceneId |-> sceneId, data |-> data])

ResetScene(sceneId) ==
  Multi(resetScene(scenes, sceneId), [op |-> "resetScene", sceneId |-> sceneId])

AddElement(sceneId, element) ==
  Multi(addElement(scenes, sceneId, element),
        [op |-> "addElement", sceneId |-> sceneId, element |-> element])

AddElements(sceneId, newElements) ==
  Multi(addElements(scenes, sceneId, newElements),
        [op |-> "addElements", sceneId |-> sceneId, newElements |-> newElements])

UpdateElement(sceneId, elementId, updates) ==
  LET r == updateElement(scenes, sceneId, elementId, updates) IN
  Multi(r.scenes, [op |-> "updateElement", sceneId |-> sceneId,
                   elementId |-> elementId, updates |-> updates, ok |-> r.ok])

DeleteElement(sceneId, elementId) ==
  LET r == deleteElement(scenes, sceneId, elementId) IN
  Multi(r.scenes, [op |-> "deleteElement", sceneId |-> sceneId,
                   elementId |-> elementId, ok |-> r.ok])

AddFiles(sceneId, fs) ==
  Multi(addFiles(scenes, sceneId, fs),
        [op |-> "addFiles", sceneId |-> sceneId, files |-> fs])

(***************************************************************************)
(* SceneService (single-room, with history)                                *)
(***************************************************************************)
\* The service's fields as a value
Single == [elements |-> elements, appState |-> appState, files |-> files,
           historyStack |-> historyStack, redoStack |-> redoStack]

\* { elements: [...this.elements], appState: { ...this.appState }, timestamp }
Snapshot(st, t) ==
  [elements |-> st.elements, appState |-> st.appState, timestamp |-> t]

\* Array.prototype.pop: the array without its last entry
Pop(stack) == SubSeq(stack, 1, Len(stack) - 1)

saveToHistory_NoTrim(st, cfg, t) ==
  [st EXCEPT !.historyStack = Append(@, Snapshot(st, t))]

saveToHistory(st, cfg, t) ==
  LET pushed == Append(st.historyStack, Snapshot(st, t)) IN
  [st EXCEPT !.historyStack = IF Len(pushed) > cfg THEN Tail(pushed) ELSE pushed]

Single_updateScene(st, data, saveHistory, cfg, t) ==
  LET s1 == IF saveHistory THEN saveToHistory(st, cfg, t) ELSE st
      s2 == [s1 EXCEPT
               !.elements = IF "elements" \in DOMAIN data THEN data.elements ELSE @,
               !.appState = IF "appState" \in DOMAIN data
                            THEN Spread(@, data.appState) ELSE @,
               !.files = IF "files" \in DOMAIN data THEN Spread(@, data.files) ELSE @]
  IN IF saveHistory THEN [s2 EXCEPT !.redoStack = << >>] ELSE s2

Single_resetScene(st, cfg, t) ==
  [saveToHistory(st, cfg, t) EXCEPT
     !.elements = << >>, !.appState = DefaultAppState, !.files = EmptyMap,
     !.redoStack = << >>]

Single_addElement_KeepRedo(st, element, cfg, t) ==
  [saveToHistory(st, cfg, t) EXCEPT !.elements = Append(@, element)]

Single_addElement(st, element, cfg, t) ==
  [saveToHistory(st, cfg, t) EXCEPT
     !.elements = Append(@, element), !.redoStack = << >>]

Single_addElements(st, newElements, cfg, t) ==
  [saveToHistory(st, cfg, t) EXCEPT
     !.elements = @ \o newElements, !.redoStack = << >>]

Single_updateElement(st, id, updates, cfg, t) ==
  LET index == FindIndex(st.elements, id) IN
  IF index = 0 THEN [st |-> st, ok |-> FALSE]
  ELSE [st |-> [saveToHistory(st, cfg, t) EXCEPT
                  !.elements = ReplaceAt(@, index,
                                         MergedElement(st.elements[index], updates)),
                  !.redoStack = << >>],
        ok |-> TRUE]

Single_deleteElement(st, id, cfg, t) ==
  Single_updateElement(st, id, [isDeleted |-> TRUE], cfg, t)

Single_addFiles(st, fs) == [st EXCEPT !.files = Spread(@, fs)]

undo_DropCurrent(st, t) ==
  IF st.historyStack = << >> THEN [st |-> st, ok |-> FALSE]
  ELSE LET snapshot == st.historyStack[Len(st.historyStack)] IN
       [st |-> [st EXCEPT !.historyStack = Pop(@),
                          !.elements = snapshot.elements,
                          !.appState = snapshot.appState],
        ok |-> TRUE]

undo(st, t) ==
  IF st.historyStack = << >> THEN [st |-> st, ok |-> FALSE]
  ELSE LET snapshot == st.historyStack[Len(st.historyStack)] IN
       [st |-> [st EXCEPT !.historyStack = Pop(@),
                          !.redoStack = Append(@, Snapshot(st, t)),
                          !.elements = snapshot.elements,
                          !.appState = snapshot.appState],
        ok |-> TRUE]

redo_KeepRedo(st, t) ==
  IF st.redoStack = << >> THEN [st |-> st, ok |-> FALSE]
  ELSE LET snapshot == st.redoStack[Len(st.redoStack)] IN
       [st |-> [st EXCEPT !.historyStack = Append(@, Snapshot(st, t)),
                          !.elements = snapshot.elements,
                          !.appState = snapshot.appState],
        ok |-> TRUE]

redo(st, t) ==
  IF st.redoStack = << >> THEN [st |-> st, ok |-> FALSE]
  ELSE LET snapshot == st.redoStack[Len(st.redoStack)] IN
       [st |-> [st EXCEPT !.redoStack = Pop(@),
                          !.historyStack = Append(@, Snapshot(st, t)),
                          !.elements = snapshot.elements,
                          !.appState = snapshot.appState],
        ok |-> TRUE]

clearHistory(st) == [st EXCEPT !.historyStack = << >>, !.redoStack = << >>]

(***************************************************************************)
(* SceneService (single-room): actions                                     *)
(***************************************************************************)
\* What getFullScene() and getHistoryState() return when a method is entered
Before ==
  [elements |-> elements, appState |-> appState, files |-> files,
   undoCount |-> Len(historyStack), redoCount |-> Len(redoStack)]

\* A method that ran to completion; readsClock: it called Date.now()
SingleStep(st, readsClock, entry) ==
  /\ design = "single"
  /\ Len(st.elements) <= MaxElems
  /\ \A i \in 1..Len(st.elements) : st.elements[i].version <= MaxVersion
  /\ readsClock => now < MaxClock
  /\ elements' = st.elements
  /\ appState' = st.appState
  /\ files' = st.files
  /\ historyStack' = st.historyStack
  /\ redoStack' = st.redoStack
  /\ now' = IF readsClock THEN now + 1 ELSE now
  /\ last' = Spread(entry, [before |-> Before])
  /\ UNCHANGED <<clientVars, design, scenes, maxSize>>
  /\ UNCHANGED regVars

SUpdateScene(data, saveHistory) ==
  SingleStep(Single_updateScene(Single, data, saveHistory, maxSize, now), saveHistory,
             [op |-> "updateScene", data |-> data, saveHistory |-> saveHistory])

SResetScene ==
  SingleStep(Single_resetScene(Single, maxSize, now), TRUE, [op |-> "resetScene"])

SAddElement(element) ==
  SingleStep(Single_addElement(Single, element, maxSize, now), TRUE,
             [op |-> "addElement", element |-> element])

SAddElements(newElements) ==
  SingleStep(Single_addElements(Single, newElements, maxSize, now), TRUE,
             [op |-> "addElements", newElements |-> newElements])

SUpdateElement(id, updates) ==
  LET r == Single_updateElement(Single, id, updates, maxSize, now) IN
  SingleStep(r.st, r.ok, [op |-> "updateElement", elementId |-> id,
                          updates |-> updates, ok |-> r.ok])

SDeleteElement(id) ==
  LET r == Single_deleteElement(Single, id, maxSize, now) IN
  SingleStep(r.st, r.ok, [op |-> "deleteElement", elementId |-> id, ok |-> r.ok])

SAddFiles(fs) ==
  SingleStep(Single_addFiles(Single, fs), FALSE, [op |-> "addFiles", files |-> fs])

Undo ==
  LET r == undo(Single, now) IN
  SingleStep(r.st, r.ok, [op |-> "undo", ok |-> r.ok])

Redo ==
  LET r == redo(Single, now) IN
  SingleStep(r.st, r.ok, [op |-> "redo", ok |-> r.ok])

ClearHistory ==
  SingleStep(clearHistory(Single), FALSE, [op |-> "clearHistory"])

(***************************************************************************)
(* Initial states                                                          *)
(***************************************************************************)
\* new SceneService() of either design
InitScenes ==
  /\ scenes = EmptyMap
  /\ elements = << >>
  /\ appState = DefaultAppState
  /\ files = EmptyMap
  /\ historyStack = << >>
  /\ redoStack = << >>
  /\ now = 0

\* The scene store as the registry specifications leave it: untouched
InitStoreIdle ==
  /\ design = "multi"
  /\ maxSize = DefaultMaxSize
  /\ InitScenes

\* Messages the room-scoped commands broadcast
RefreshMessage == [type |-> "refresh"]

InitRegistry ==
  /\ rooms = EmptyMap
  /\ clientRooms = EmptyMap
  /\ pendingExports = EmptyMap
  /\ timers = {}
  /\ futures = EmptyMap
  /\ outbox = [c \in Conns |-> << >>]

Init ==
  /\ InitRegistry
  /\ InitStoreIdle
  /\ InitClient
  /\ last = [op |-> "init"]

Next ==
  \/ \E sceneId \in RoomIds, ws \in Conns : JoinRoom(sceneId, ws)
  \/ \E ws \in Conns : LeaveCurrentRoom(ws)
  \/ \E ws \in Conns : UnregisterClient(ws)
  \/ \E sceneId \in RoomIds, exclude \in Conns \cup {Undefined} :
       BroadcastToRoom(sceneId, RefreshMessage, exclude)

Spec == Init /\ [][Next]_vars

(***************************************************************************)
(* The export correlator with two connections joining and leaving rooms    *)
(***************************************************************************)
ExportConns == {"c1", "c2"}
ExportRooms == {"A", "B"}

NextExport ==
  \/ \E sceneId \in ExportRooms, ws \in ExportConns : JoinRoom(sceneId, ws)
  \/ \E ws \in ExportConns : LeaveCurrentRoom(ws)
  \/ \E ws \in ExportConns : UnregisterClient(ws)
  \/ \E sceneId \in ExportRooms : RequestExport(sceneId, "svg")
  \/ \E requestId \in RequestIds :
       HandleExportResponse(requestId, "<svg/>", "image/svg+xml")
  \/ \E requestId \in RequestIds : ExportTimeout(requestId)
  \/ CancelAllExports

SpecExport == Init /\ [][NextExport]_vars

\* setTimeout: an armed timer that is not cleared fires
SpecExportFair ==
  SpecExport /\ \A requestId \in RequestIds : WF_vars(ExportTimeout(requestId))

(***************************************************************************)
(* The scene store of either design, driven through its write methods      *)
(***************************************************************************)
StoreScenes == {"A", "B"}
\* Element arrays a scene update carries
ElementsInputs ==
  { << >>,
    <<NewElement("a", 1)>>,
    <<NewElement("a", MaxVersion)>>,
    <<NewElement("a", 1), NewElement("b", 1)>> }
\* Element arrays a scene update of the single-room store carries
SingleElementsInputs ==
  { <<NewElement("a", 1)>>, <<NewElement("a", 1), NewElement("b", 1)>> }
\* Partial element fields of a patch
ElementUpdates == {[version |-> 1], [id |-> "b"], [isDeleted |-> FALSE]}
FilesInputs == {[f1 |-> "png"]}
AppStateInputs == {[viewBackgroundColor |-> "#000000"]}

InitStore ==
  /\ InitRegistry
  /\ InitScenes
  /\ InitClient
  /\ \/ design = "multi" /\ maxSize = DefaultMaxSize
     \/ design = "single" /\ maxSize \in 1..MaxHistory
  /\ last = [op |-> "init"]

NextStore ==
  \/ \E sceneId \in StoreScenes, es \in ElementsInputs :
       UpdateScene(sceneId, [elements |-> es])
  \/ \E sceneId \in StoreScenes : ResetScene(sceneId)
  \/ \E sceneId \in StoreScenes, id \in ElemIds :
       AddElement(sceneId, NewElement(id, 1))
  \/ \E sceneId \in StoreScenes :
       AddElements(sceneId, <<NewElement("a", 1), NewElement("b", 1)>>)
  \/ \E sceneId \in StoreScenes, id \in ElemIds, updates \in ElementUpdates :
       UpdateElement(sceneId, id, updates)
  \/ \E sceneId \in StoreScenes, id \in ElemIds : DeleteElement(sceneId, id)
  \/ \E es \in SingleElementsInputs, saveHistory \in BOOLEAN :
       SUpdateScene([elements |-> es], saveHistory)
  \/ \E a \in AppStateInputs : SUpdateScene([appState |-> a], TRUE)
  \/ SResetScene
  \/ \E id \in ElemIds : SAddElement(NewElement(id, 1))
  \/ SAddElements(<<NewElement("a", 1), NewElement("b", 1)>>)
  \/ \E id \in ElemIds : SUpdateElement(id, [version |-> 1])
  \/ \E id \in ElemIds : SDeleteElement(id)
  \/ \E fs \in FilesInputs : SAddFiles(fs)
  \/ Undo
  \/ Redo
  \/ ClearHistory

SpecStore == InitStore /\ [][NextStore]_vars

(***************************************************************************)
(* WebSocket handler (multi-room): join, leave, close and scene_update     *)
(***************************************************************************)
\* JavaScript's null
Null == [null |-> TRUE]

\* SceneService.getScene: this.scenes.get(sceneId) ?? null
getScene(sc, sceneId) == IF sceneId \in DOMAIN sc THEN sc[sceneId] ELSE Null

SceneSyncMessage(scene) == [type |-> "scene_sync", payload |-> scene]

syncSceneToRoom(ob, rs, sceneId, scene, exclude) ==
  broadcastToRoom(ob, rs, sceneId, SceneSyncMessage(scene), exclude)

\* const { sceneId, ...sceneData } = payload
SceneDataOf(payload) == [k \in DOMAIN payload \ {"sceneId"} |-> payload[k]]

\* { elements: sceneData.elements ?? [], appState: sceneData.appState ?? {},
\*   files: sceneData.files ?? {} }
SyncedScene(sceneData) ==
  [elements |-> IF "elements" \in DOMAIN sceneData THEN sceneData.elements ELSE << >>,
   appState |-> IF "appState" \in DOMAIN sceneData THEN sceneData.appState ELSE EmptyMap,
   files |-> IF "files" \in DOMAIN sceneData THEN sceneData.files ELSE EmptyMap]

OnJoin_SendToRoom(ws, sceneId) ==
  LET reg == joinRoom(Registry, sceneId, ws)
      cachedScene == getScene(scenes, sceneId)
  IN /\ \A c \in Conns : Len(outbox[c]) < MaxOutbox
     /\ rooms' = reg.rooms
     /\ clientRooms' = reg.clientRooms
     /\ outbox' = IF cachedScene # Null
                  THEN syncSceneToRoom(outbox, reg.rooms, sceneId, cachedScene, Undefined)
                  ELSE outbox
     /\ last' = [op |-> "onJoin", sceneId |-> sceneId, ws |-> ws,
                 left |-> MapGet(clientRooms, ws),
                 created |-> sceneId \notin DOMAIN rooms]
     /\ UNCHANGED <<pendingExports, timers, futures>>
     /\ UNCHANGED storeVars

\* onMessage, case 'join'
OnJoin(ws, sceneId) ==
  LET reg == joinRoom(Registry, sceneId, ws)
      cachedScene == getScene(scenes, sceneId)
  IN /\ Len(outbox[ws]) < MaxOutbox
     /\ rooms' = reg.rooms
     /\ clientRooms' = reg.clientRooms
     /\ outbox' = IF cachedScene # Null
                  THEN Send(outbox, ws, JSONStringify(SceneSyncMessage(cachedScene)))
                  ELSE outbox
     /\ last' = [op |-> "onJoin", sceneId |-> sceneId, ws |-> ws,
                 left |-> MapGet(clientRooms, ws),
                 created |-> sceneId \notin DOMAIN rooms]
     /\ UNCHANGED <<pendingExports, timers, futures>>
     /\ UNCHANGED storeVars

\* onMessage, case 'leave'
OnLeave(ws) == LeaveCurrentRoom(ws)

\* onClose
OnClose(ws) == UnregisterClient(ws)

OnSceneUpdate_Echo(ws, payload) ==
  LET sceneId == payload.sceneId
      sceneData == SceneDataOf(payload)
      sc == updateScene(scenes, sceneId, sceneData)
  IN /\ design = "multi"
     /\ WithinBounds(sc)
     /\ \A c \in Recipients(rooms, sceneId, Undefined) : Len(outbox[c]) < MaxOutbox
     /\ scenes' = sc
     /\ outbox' = syncSceneToRoom(outbox, rooms, sceneId, SyncedScene(sceneData),
                                  Undefined)
     /\ last' = [op |-> "onSceneUpdate", ws |-> ws, payload |-> payload]
     /\ UNCHANGED <<rooms, clientRooms, pendingExports, timers, futures>>
     /\ UNCHANGED <<clientVars, design, singleVars>>

\* onMessage, case 'scene_update'
OnSceneUpdate(ws, payload) ==
  LET sceneId == payload.sceneId
      sceneData == SceneDataOf(payload)
      sc == updateScene(scenes, sceneId, sceneData)
  IN /\ design = "multi"
     /\ WithinBounds(sc)
     /\ \A c \in Recipients(rooms, sceneId, ws) : Len(outbox[c]) < MaxOutbox
     /\ scenes' = sc
     /\ outbox' = syncSceneToRoom(outbox, rooms, sceneId, SyncedScene(sceneData), ws)
     /\ last' = [op |-> "onSceneUpdate", ws |-> ws, payload |-> payload]
     /\ UNCHANGED <<rooms, clientRooms, pendingExports, timers, futures>>
     /\ UNCHANGED <<clientVars, design, singleVars>>

SessionConns == {"c1", "c2"}
SessionRooms == {"", "A"}
\* scene_update payloads
SessionPayloads ==
  { [sceneId |-> sceneId, elements |-> es] :
      sceneId \in SessionRooms, es \in {<<NewElement("a", 1)>>, <<NewElement("b", 1)>>} }

NextSession ==
  \/ \E ws \in SessionConns, sceneId \in SessionRooms : OnJoin(ws, sceneId)
  \/ \E ws \in SessionConns : OnLeave(ws)
  \/ \E ws \in SessionConns : OnClose(ws)
  \/ \E ws \in SessionConns, payload \in SessionPayloads : OnSceneUpdate(ws, payload)

SpecSession == Init /\ [][NextSession]_vars

(***************************************************************************)
(* WebSocket handler (multi-room): onMessage from the raw frame            *)
(***************************************************************************)
\* The message types the switch has a case for
KnownTypes == {"join", "leave", "scene_update", "export_response", "ping"}
\* The cases that read a field of message.payload
ReadsPayload == {"join", "leave", "scene_update", "export_response"}

\* rec.k, undefined when rec has no such property
Field(rec, k) == IF k \in DOMAIN rec THEN rec[k] ELSE Undefined

\* A frame is [raw |-> text] when JSON.parse throws on it and the parsed
\* object otherwise.  The frame changes nothing when JSON.parse throws, when
\* the switch falls to its default case, or when reading a field of an absent
\* payload throws: the catch block logs the error
Dropped(message) ==
  \/ "raw" \in DOMAIN message
  \/ Field(message, "type") \notin KnownTypes
  \/ message.type \in ReadsPayload /\ "payload" \notin DOMAIN message

Drop(ws, message) ==
  /\ last' = [op |-> "dropped", ws |-> ws, message |-> message]
  /\ UNCHANGED regVars
  /\ UNCHANGED storeVars

\* onMessage, case 'export_response'
OnExportResponse_MembersOnly(ws, payload) ==
  LET requestId == Field(payload, "requestId")
      ex == IF ws \in DOMAIN clientRooms
            THEN handleExportResponse(Exports, requestId, Field(payload, "data"),
                                      Field(payload, "mimeType"))
            ELSE Exports
  IN /\ pendingExports' = ex.pendingExports
     /\ timers' = ex.timers
     /\ futures' = ex.futures
     /\ last' = [op |-> "onExportResponse", ws |-> ws, requestId |-> requestId,
                 pending |-> requestId \in DOMAIN pendingExports]
     /\ UNCHANGED <<rooms, clientRooms, outbox>>
     /\ UNCHANGED storeVars

OnExportResponse(ws, payload) ==
  LET requestId == Field(payload, "requestId")
      ex == handleExportResponse(Exports, requestId, Field(payload, "data"),
                                 Field(payload, "mimeType"))
  IN /\ pendingExports' = ex.pendingExports
     /\ timers' = ex.timers
     /\ futures' = ex.futures
     /\ last' = [op |-> "onExportResponse", ws |-> ws, requestId |-> requestId,
                 pending |-> requestId \in DOMAIN pendingExports]
     /\ UNCHANGED <<rooms, clientRooms, outbox>>
     /\ UNCHANGED storeVars

\* onMessage, case 'ping'
OnPing(ws) ==
  /\ Len(outbox[ws]) < MaxOutbox
  /\ outbox' = Send(outbox, ws, JSONStringify([type |-> "pong"]))
  /\ last' = [op |-> "onPing", ws |-> ws]
  /\ UNCHANGED <<rooms, clientRooms, pendingExports, timers, futures>>
  /\ UNCHANGED storeVars

OnMessage(ws, message) ==
  IF Dropped(message) THEN Drop(ws, message)
  ELSE CASE message.type = "join" -> OnJoin(ws, Field(message.payload, "sceneId"))
         [] message.type = "leave" -> OnLeave(ws)
         [] message.type = "scene_update" -> OnSceneUpdate(ws, message.payload)
         [] message.type = "export_response" -> OnExportResponse(ws, message.payload)
         [] message.type = "ping" -> OnPing(ws)

\* Frames a client can send
Frames ==
  { [raw |-> "{"],
    [type |-> "bogus"],
    [type |-> "join"],
    [type |-> "join", payload |-> EmptyMap],
    [type |-> "join", payload |-> [sceneId |-> "A"]],
    [type |-> "leave"],
    [type |-> "leave", payload |-> [sceneId |-> "A"]],
    [type |-> "scene_update"],
    [type |-> "scene_update",
     payload |-> [sceneId |-> "A", elements |-> <<NewElement("a", 1)>>]],
    [type |-> "export_response"],
    [type |-> "export_response",
     payload |-> [requestId |-> "r1", data |-> "<svg/>", mimeType |-> "image/svg+xml"]],
    [type |-> "ping"] }

NextFrames ==
  \/ \E ws \in SessionConns, message \in Frames : OnMessage(ws, message)
  \/ \E ws \in SessionConns : OnClose(ws)

SpecFrames == Init /\ [][NextFrames]_vars

(***************************************************************************)
(* The multi-room scene store written with partial scenes and read         *)
(***************************************************************************)
\* GET /scene/:sceneId
GetSceneResponse(sc, sceneId) ==
  LET scene == getScene(sc, sceneId) IN
  IF scene = Null THEN [success |-> TRUE, data |-> EmptyScene]
  ELSE [success |-> TRUE, data |-> scene]

\* The read methods of the store and the GET route, called for one scene
ReadScene(sceneId) ==
  /\ design = "multi"
  /\ last' = [op |-> "read", sceneId |-> sceneId,
              scene |-> getScene(scenes, sceneId),
              elements |-> getElements(scenes, sceneId),
              allElements |-> getAllElements(scenes, sceneId),
              appState |-> getAppState(scenes, sceneId),
              files |-> getFiles(scenes, sceneId),
              response |-> GetSceneResponse(scenes, sceneId)]
  /\ UNCHANGED storeVars
  /\ UNCHANGED regVars

\* Partial scenes an update carries
SceneUpdates ==
  { [elements |-> <<NewElement("a", 1)>>],
    [appState |-> [viewBackgroundColor |-> "#000000"]],
    [appState |-> [gridSize |-> 20]],
    [files |-> [f1 |-> "png"]],
    [files |-> [f2 |-> "png"]],
    [elements |-> << >>, appState |-> [gridSize |-> 10]] }
\* Files an addFiles call carries
FilesUpdates == {[f1 |-> "jpg"], [f2 |-> "png"]}

NextScene ==
  \/ \E sceneId \in StoreScenes, data \in SceneUpdates : UpdateScene(sceneId, data)
  \/ \E sceneId \in StoreScenes, fs \in FilesUpdates : AddFiles(sceneId, fs)
  \/ \E sceneId \in StoreScenes : ResetScene(sceneId)
  \/ \E sceneId \in StoreScenes : ReadScene(sceneId)

SpecScene == Init /\ [][NextScene]_vars

(***************************************************************************)
(* HTTP routes (multi-room) that write elements and sync the room          *)
(***************************************************************************)
\* A route handler that ran to completion: the store and the send logs it
\* leaves and the response it returns
Route(sc, ob, entry) ==
  /\ design = "multi"
  /\ WithinBounds(sc)
  /\ \A c \in Conns : Len(ob[c]) <= MaxOutbox
  /\ scenes' = sc
  /\ outbox' = ob
  /\ last' = entry
  /\ UNCHANGED <<rooms, clientRooms, pendingExports, timers, futures>>
  /\ UNCHANGED <<clientVars, design, singleVars>>

\* const scene = sceneService.getScene(sceneId)
\* if (scene) commandService.syncSceneToRoom(sceneId, scene)
SyncStored(sc, ob, sceneId) ==
  IF getScene(sc, sceneId) # Null
  THEN syncSceneToRoom(ob, rooms, sceneId, getScene(sc, sceneId), Undefined)
  ELSE ob

\* POST /scene/:sceneId/elements
PostElement(sceneId, element) ==
  LET sc == addElement(scenes, sceneId, element) IN
  Route(sc, SyncStored(sc, outbox, sceneId),
        [op |-> "postElement", sceneId |-> sceneId, element |-> element,
         status |-> 200])

\* PATCH /scene/:sceneId/elements/:elementId
PatchElement(sceneId, elementId, updates) ==
  LET r == updateElement(scenes, sceneId, elementId, updates) IN
  Route(r.scenes,
        IF r.ok THEN SyncStored(r.scenes, outbox, sceneId) ELSE outbox,
        [op |-> "patchElement", sceneId |-> sceneId, elementId |-> elementId,
         updates |-> updates, status |-> IF r.ok THEN 200 ELSE 404])

\* DELETE /scene/:sceneId/elements/:elementId
DeleteElementRoute(sceneId, elementId) ==
  LET r == deleteElement(scenes, sceneId, elementId) IN
  Route(r.scenes,
        IF r.ok THEN SyncStored(r.scenes, outbox, sceneId) ELSE outbox,
        [op |-> "deleteElementRoute", sceneId |-> sceneId, elementId |-> elementId,
         status |-> IF r.ok THEN 200 ELSE 404])

ApiConns == {"c1", "c2"}

NextApi ==
  \/ \E sceneId \in StoreScenes, ws \in ApiConns : JoinRoom(sceneId, ws)
  \/ \E sceneId \in StoreScenes, id \in ElemIds :
       PostElement(sceneId, NewElement(id, 1))
  \/ \E sceneId \in StoreScenes, id \in ElemIds :
       PatchElement(sceneId, id, [isDeleted |-> FALSE])
  \/ \E sceneId \in StoreScenes, id \in ElemIds : DeleteElementRoute(sceneId, id)

SpecApi == Init /\ [][NextApi]_vars

(***************************************************************************)
(* Broadcast delivery send by send: a send may throw, and a send may set   *)
(* off a join or a leave before it returns                                 *)
(***************************************************************************)
\* The orders in which a for-of loop can visit a Set with these members
Orders(S) ==
  {seq \in [1..Cardinality(S) -> S] :
     \A i, j \in 1..Cardinality(S) : seq[i] = seq[j] => i = j}

\* What client.send(data) sets off before it returns: nothing, or a joinRoom
\* of the broadcast's room or a leaveCurrentRoom by connection who, set off by
\* the send to connection on
NoEffect == [op |-> "none"]
Effects ==
  {NoEffect} \cup {[op |-> o, on |-> c, who |-> d] : o \in {"join", "leave"},
                                                     c \in Conns, d \in Conns}

\* Set.prototype.delete on the iterated Set: the entry is skipped
Remove(seq, x) == SelectSeq(seq, LAMBDA y : y # x)

\* The registry after the join or leave a send set off
AfterEffect(reg, sceneId, effect) ==
  IF effect.op = "join" THEN joinRoom(reg, sceneId, effect.who)
  ELSE leaveCurrentRoom(reg, effect.who)

\* The entries the loop has yet to visit after the join or leave a send set
\* off: leaveCurrentRoom deletes who from the iterated Set when that is who's
\* room, and unlinks the Set from the registry when that empties it; joinRoom
\* adds who at the end of the Set unless who is in it
RestAfterEffect(reg, sceneId, todo, effect) ==
  LET mid == leaveCurrentRoom(reg, effect.who) IN
  IF sceneId \notin DOMAIN mid.rooms THEN << >>
  ELSE IF effect.who \in mid.rooms[sceneId] THEN todo
  ELSE IF effect.op = "join" THEN Append(Remove(todo, effect.who), effect.who)
  ELSE Remove(todo, effect.who)

\* for (const client of room) { if (client !== exclude) client.send(data) }
\* over the live Set; a send that throws ends the loop
RECURSIVE DeliverLoop(_, _, _, _, _, _, _)
DeliverLoop(st, todo, sceneId, data, exclude, throwing, effect) ==
  IF todo = << >> THEN st
  ELSE LET client == Head(todo) IN
       IF client = exclude
       THEN DeliverLoop(st, Tail(todo), sceneId, data, exclude, throwing, effect)
       ELSE IF client \in throwing
       THEN [st EXCEPT !.threw = TRUE]
       ELSE LET fires == effect.op # "none" /\ effect.on = client
                next == [ob |-> Send(st.ob, client, data),
                         reg |-> IF fires THEN AfterEffect(st.reg, sceneId, effect)
                                 ELSE st.reg,
                         threw |-> FALSE]
                rest == IF fires
                        THEN RestAfterEffect(st.reg, sceneId, Tail(todo), effect)
                        ELSE Tail(todo)
            IN DeliverLoop(next, rest, sceneId, data, exclude, throwing,
                           IF fires THEN NoEffect ELSE effect)

\* broadcastToRoom with the Set's iteration order and the outcome of each send
broadcastToRoomWith(ob, reg, sceneId, message, exclude, order, throwing, effect) ==
  IF sceneId \notin DOMAIN reg.rooms THEN [ob |-> ob, reg |-> reg, threw |-> FALSE]
  ELSE DeliverLoop([ob |-> ob, reg |-> reg, threw |-> FALSE], order, sceneId,
                   JSONStringify(message), exclude, throwing, effect)

\* The orders in which broadcast's nested loops can visit the members of the
\* rooms, the rooms taken in the order roomOrder
RECURSIVE BroadcastOrders(_, _)
BroadcastOrders(rs, roomOrder) ==
  IF roomOrder = << >> THEN {<< >>}
  ELSE {members \o rest : members \in Orders(rs[Head(roomOrder)]),
                          rest \in BroadcastOrders(rs, Tail(roomOrder))}

\* broadcast (all rooms) with the iteration order and the outcome of each send
broadcastWith(ob, reg, message, order, throwing) ==
  DeliverLoop([ob |-> ob, reg |-> reg, threw |-> FALSE], order, Undefined,
              JSONStringify(message), Undefined, throwing, NoEffect)

BroadcastToRoomWith(sceneId, message, exclude, order, throwing, effect) ==
  LET st == broadcastToRoomWith(outbox, Registry, sceneId, message, exclude,
                                order, throwing, effect)
  IN /\ \A c \in Conns : Len(outbox[c]) < MaxOutbox
     /\ outbox' = st.ob
     /\ rooms' = st.reg.rooms
     /\ clientRooms' = st.reg.clientRooms
     /\ last' = [op |-> "broadcastToRoom", sceneId |-> sceneId, message |-> message,
                 exclude |-> exclude, order |-> order, throwing |-> throwing,
                 effect |-> effect, threw |-> st.threw]
     /\ UNCHANGED <<pendingExports, timers, futures>>
     /\ UNCHANGED storeVars

BroadcastWith(message, order, throwing) ==
  LET st == broadcastWith(outbox, Registry, message, order, throwing)
  IN /\ \A c \in Conns : Len(outbox[c]) < MaxOutbox
     /\ outbox' = st.ob
     /\ last' = [op |-> "broadcast", message |-> message, order |-> order,
                 throwing |-> throwing, effect |-> NoEffect, threw |-> st.threw]
     /\ UNCHANGED <<rooms, clientRooms, pendingExports, timers, futures>>
     /\ UNCHANGED storeVars

DeliveryRooms == {"A", "B"}
\* The connections whose send throws during one broadcast: none or one
Throwing == {{}} \cup {{c} : c \in Conns}

NextDelivery ==
  \/ \E sceneId \in DeliveryRooms, ws \in Conns : JoinRoom(sceneId, ws)
  \/ \E ws \in Conns : LeaveCurrentRoom(ws)
  \/ \E sceneId \in DeliveryRooms, exclude \in {Undefined, "c1"},
        throwing \in Throwing, effect \in Effects :
       /\ throwing = {} \/ effect = NoEffect
       /\ \E order \in Orders(IF sceneId \in DOMAIN rooms THEN rooms[sceneId] ELSE {}) :
            BroadcastToRoomWith(sceneId, RefreshMessage, exclude, order, throwing, effect)
  \/ \E roomOrder \in Orders(DOMAIN rooms), throwing \in Throwing :
       \E order \in BroadcastOrders(rooms, roomOrder) :
         BroadcastWith(RefreshMessage, order, throwing)

SpecDelivery == Init /\ [][NextDelivery]_vars

(***************************************************************************)
(* Claims about the registry, the broadcaster and the export correlator    *)
(***************************************************************************)
\* The rooms whose member set contains ws
RoomsOf(ws) == {r \in DOMAIN rooms : ws \in rooms[r]}

\* C1: every export future has its resolve/reject callbacks called at most
\* once, and exactly the futures on which one was called are settled: of a
\* matching response, the timeout and cancelAllExports only the first settles
\* the future, no later one reaches it.
C1_SettledOnce ==
  \A requestId \in DOMAIN futures :
    /\ futures[requestId].calls <= 1
    /\ futures[requestId].status = "pending" <=> futures[requestId].calls = 0

\* A response that arrives for an export already rejected (by its timeout or
\* by cancelAllExports) and leaves it rejected
C1_Witness ==
  /\ last.op = "handleExportResponse"
  /\ last.requestId \in DOMAIN futures
  /\ futures[last.requestId].status = "rejected"
  /\ futures[last.requestId].calls = 1

\* C2: every connection is in the member set of at most one room.
C2_AtMostOneRoom == \A ws \in Conns : Cardinality(RoomsOf(ws)) <= 1

\* C3: no room in the registry has an empty member set, and the room named
\* in a join exists afterwards and holds the joiner.
C3_NoEmptyRoom ==
  /\ \A sceneId \in DOMAIN rooms : rooms[sceneId] # {}
  /\ last.op = "joinRoom" =>
       last.sceneId \in DOMAIN rooms /\ last.ws \in rooms[last.sceneId]

\* The last member of a room left and the room is gone
C3_Witness ==
  /\ last.op \in {"leaveCurrentRoom", "unregisterClient"}
  /\ Truthy(last.left)
  /\ last.left \notin DOMAIN rooms

\* C4: a broadcast to room R excluding c appends the message exactly once to
\* the send log of every member of R other than c and leaves the send log of
\* c and of every connection outside R as it was.
C4_BroadcastExactlyOnce ==
  [][last'.op = "broadcastToRoom" =>
       \A c \in Conns :
         outbox'[c] =
           IF /\ last'.sceneId \in DOMAIN rooms
              /\ c \in rooms[last'.sceneId]
              /\ c # last'.exclude
           THEN Append(outbox[c], JSONStringify(last'.message))
           ELSE outbox[c]]_vars

\* A broadcast to a room of three that excluded one member: the other two
\* were sent the message, the excluded one nothing
C4_Witness ==
  /\ last.op = "broadcastToRoom"
  /\ last.sceneId \in DOMAIN rooms
  /\ rooms[last.sceneId] = Conns
  /\ last.exclude \in Conns
  /\ outbox[last.exclude] = << >>
  /\ \A c \in Conns \ {last.exclude} :
       outbox[c] = <<JSONStringify(last.message)>>

(***************************************************************************)
(* Claims about the scene stores                                           *)
(***************************************************************************)
\* The element sequence of a scene of the multi-room store
Stored(sc, sceneId) == getAllElements(sc, sceneId)

\* The operations that take a history snapshot before they change the scene
Recorded(entry) ==
  \/ entry.op \in {"resetScene", "addElement", "addElements"}
  \/ entry.op = "updateScene" /\ entry.saveHistory
  \/ entry.op \in {"updateElement", "deleteElement"} /\ entry.ok

\* The scene of the single-room store: elements, view state and files
FullScene(e, a, f) == [elements |-> e, appState |-> a, files |-> f]

\* C5: updateElement succeeds exactly when the scene holds an element with
\* the id; then the version of that element is one more than before, whatever
\* version the partial fields carry; otherwise it returns false and leaves the
\* scene (and, in the single-room store, both history stacks) as it was.
C5_UpdateElementVersion ==
  [][last'.op = "updateElement" =>
       IF design = "multi"
       THEN LET es == Stored(scenes, last'.sceneId)
                index == FindIndex(es, last'.elementId)
            IN IF last'.ok
               THEN /\ index > 0
                    /\ Stored(scenes', last'.sceneId)[index].version
                         = es[index].version + 1
               ELSE /\ index = 0
                    /\ scenes' = scenes
       ELSE LET index == FindIndex(elements, last'.elementId) IN
            IF last'.ok
            THEN /\ index > 0
                 /\ elements'[index].version = elements[index].version + 1
            ELSE /\ index = 0
                 /\ UNCHANGED <<elements, appState, files, historyStack, redoStack>>
    ]_vars

\* A patch carrying version 1 was accepted and the element is at version 2
C5_Witness ==
  /\ design = "multi"
  /\ last.op = "updateElement"
  /\ last.ok
  /\ last.updates = [version |-> 1]
  /\ LET es == Stored(scenes, last.sceneId) IN
     es[FindIndex(es, last.elementId)].version = 2

\* C6 as claimed: over updateScene with an elements array, addElement,
\* addElements, updateElement and deleteElement, the version of the element
\* with a given id never decreases and never grows by more than 1 in a step.
C6_VersionNeverDecreasedOrSkipped ==
  [][(design = "multi" /\ last'.op \in {"updateScene", "addElement", "addElements",
                                        "updateElement", "deleteElement"}) =>
       \A sceneId \in DOMAIN scenes, id \in ElemIds :
         LET old == Stored(scenes, sceneId)
             new == Stored(scenes', sceneId)
         IN (FindIndex(old, id) > 0 /\ FindIndex(new, id) > 0) =>
              \/ new[FindIndex(new, id)].version = old[FindIndex(old, id)].version
              \/ new[FindIndex(new, id)].version = old[FindIndex(old, id)].version + 1
    ]_vars

\* C6 as amended: over addElement, addElements, deleteElement and updateElement
\* with partial fields that carry no id, the element with a given id stays in
\* the scene and its version grows by exactly 1 on an accepted update or delete
\* that names it and is unchanged by every other of these operations.
C6_VersionStepsByOne ==
  [][(/\ design = "multi"
      /\ last'.op \in {"addElement", "addElements", "updateElement", "deleteElement"}
      /\ last'.op = "updateElement" => "id" \notin DOMAIN last'.updates) =>
       \A sceneId \in DOMAIN scenes, id \in ElemIds :
         LET old == Stored(scenes, sceneId)
             new == Stored(scenes', sceneId)
             named == /\ last'.op \in {"updateElement", "deleteElement"}
                      /\ last'.ok
                      /\ last'.sceneId = sceneId
                      /\ last'.elementId = id
         IN FindIndex(old, id) > 0 =>
              /\ FindIndex(new, id) > 0
              /\ new[FindIndex(new, id)].version
                   = old[FindIndex(old, id)].version + (IF named THEN 1 ELSE 0)
    ]_vars

\* A delete was accepted: the element is flagged and at version 2
C6_Witness ==
  /\ design = "multi"
  /\ last.op = "deleteElement"
  /\ last.ok
  /\ LET es == Stored(scenes, last.sceneId)
         index == FindIndex(es, last.elementId)
     IN es[index].isDeleted /\ es[index].version = 2

\* C7: no two elements of a scene have the same id.
C7_UniqueIds ==
  design = "multi" =>
    \A sceneId \in DOMAIN scenes :
      LET es == Stored(scenes, sceneId) IN
      \A i, j \in 1..Len(es) : es[i].id = es[j].id => i = j

\* C8: an undo right after a recorded mutation restores the elements, the view
\* state and the files the mutation found, and a redo right after a successful
\* undo restores the scene the undo found.
C8_UndoRedoRoundTrip ==
  [][(design = "single" /\ last.op # "init") =>
       /\ (Recorded(last) /\ last'.op = "undo") =>
            /\ last'.ok
            /\ FullScene(elements', appState', files')
                 = FullScene(last.before.elements, last.before.appState,
                             last.before.files)
       /\ (last.op = "undo" /\ last.ok /\ last'.op = "redo") =>
            /\ last'.ok
            /\ FullScene(elements', appState', files')
                 = FullScene(last.before.elements, last.before.appState,
                             last.before.files)
    ]_vars

\* C9 as claimed: after updateScene, resetScene, addElement, addElements, a
\* successful updateElement or deleteElement, or addFiles, the redo stack is
\* empty.
C9_RedoEmptyAfterAnyMutation ==
  (/\ design = "single"
   /\ \/ last.op \in {"updateScene", "resetScene", "addElement", "addElements",
                      "addFiles"}
      \/ last.op \in {"updateElement", "deleteElement"} /\ last.ok)
  => redoStack = << >>

\* C9 as amended: after every mutation that records history (updateScene with
\* saveHistory, resetScene, addElement, addElements, a successful updateElement
\* or deleteElement) the redo stack is empty.
C9_RedoEmptyAfterRecordedMutation ==
  (design = "single" /\ last.op # "init" /\ Recorded(last)) => redoStack = << >>

\* A recorded mutation that found a redo entry (left by an undo) and cleared it
C9_Witness ==
  /\ design = "single"
  /\ last.op = "addElement"
  /\ last.before.redoCount > 0
  /\ redoStack = << >>

\* C10: the undo stack never holds more than maxSize entries, and a snapshot
\* taken when it holds maxSize discards the oldest entry and keeps the others
\* under the new one.
C10_HistoryBounded ==
  /\ [](design = "single" => Len(historyStack) <= maxSize)
  /\ [][(/\ design = "single"
         /\ Recorded(last')
         /\ Len(historyStack) = maxSize) =>
          historyStack' = Tail(historyStack) \o <<Snapshot(Single, now)>>]_vars

\* A recorded mutation that found the undo stack full
C10_Witness ==
  /\ design = "single"
  /\ last.op # "init"
  /\ Recorded(last)
  /\ last.before.undoCount = maxSize
  /\ maxSize = MaxHistory
  /\ Len(historyStack) = maxSize

(***************************************************************************)
(* Claims about export requests                                            *)
(***************************************************************************)
\* The future of requestId is settled
Settled(requestId) ==
  requestId \in DOMAIN futures /\ futures[requestId].status # "pending"

\* A settled future keeps its outcome in every step
SettledStaysSettled ==
  \A requestId \in DOMAIN futures :
    futures[requestId].status # "pending" =>
      /\ futures'[requestId].status = futures[requestId].status
      /\ futures'[requestId].value = futures[requestId].value

\* C11: requestExport on a room the registry holds no member of throws the
\* no-connected-clients error and leaves the pending map, the timers, the
\* futures and every send log as they were.
C11_NoPeersRejects ==
  [][(last'.op = "requestExport" /\ getRoomClientCount(last'.sceneId) = 0) =>
       /\ last'.threw = "No connected clients in room"
       /\ UNCHANGED <<pendingExports, timers, futures, outbox>>]_vars

\* An export was requested of a room that has been emptied since it served an
\* earlier export request
C11_Witness ==
  /\ last.op = "requestExport"
  /\ last.threw = "No connected clients in room"
  /\ rooms = EmptyMap
  /\ Cardinality(DOMAIN futures) = 1
  /\ \E c \in Conns : Len(outbox[c]) = 1

\* C12: a response for a pending request resolves its future with exactly
\* the data and mime type given, clears its timer and removes its entry; a
\* response for an id with no pending entry changes nothing.
C12_ResponseResolves ==
  [][last'.op = "handleExportResponse" =>
       LET requestId == last'.requestId IN
       IF requestId \in DOMAIN pendingExports
       THEN /\ futures'[requestId].status = "resolved"
            /\ futures'[requestId].value
                 = [data |-> last'.data, mimeType |-> last'.mimeType]
            /\ requestId \notin timers'
            /\ requestId \notin DOMAIN pendingExports'
       ELSE UNCHANGED <<pendingExports, timers, futures, outbox, rooms, clientRooms>>
    ]_vars

\* A second response for a request that the first response resolved
C12_Witness ==
  /\ last.op = "handleExportResponse"
  /\ ~last.pending
  /\ last.requestId \in DOMAIN futures
  /\ futures[last.requestId].status = "resolved"
  /\ futures[last.requestId].value = [data |-> last.data, mimeType |-> last.mimeType]
  /\ futures[last.requestId].calls = 1

\* C13: the timeout of a request rejects its future with the timeout error
\* and removes its pending entry and its timer, and no later step changes the
\* outcome of a future that is settled.
C13_TimeoutRejects ==
  [][/\ last'.op = "exportTimeout" =>
          /\ futures'[last'.requestId].status = "rejected"
          /\ futures'[last'.requestId].value = [error |-> "Export request timed out"]
          /\ last'.requestId \notin DOMAIN pendingExports'
          /\ last'.requestId \notin timers'
     /\ SettledStaysSettled]_vars

\* A response that arrives after the timeout fired and finds the future
\* rejected by the timeout
C13_Witness ==
  /\ last.op = "handleExportResponse"
  /\ ~last.pending
  /\ last.requestId \in DOMAIN futures
  /\ futures[last.requestId].status = "rejected"
  /\ futures[last.requestId].value = [error |-> "Export request timed out"]

\* C14: leaving a room or disconnecting changes no pending export, timer or
\* future, and every pending export is eventually settled.
C14_TimeoutOnlyCancellation ==
  /\ [][last'.op \in {"leaveCurrentRoom", "unregisterClient"} =>
          UNCHANGED <<pendingExports, timers, futures>>]_vars
  /\ \A requestId \in RequestIds :
       (requestId \in DOMAIN pendingExports) ~> Settled(requestId)

\* The timeout rejected an export after every room had become empty
C14_Witness ==
  /\ last.op = "exportTimeout"
  /\ rooms = EmptyMap
  /\ futures[last.requestId].status = "rejected"
  /\ futures[last.requestId].value = [error |-> "Export request timed out"]

\* C15: cancelAllExports rejects the future of every pending export with the
\* cancellation error, leaves the pending map and the set of armed timers
\* empty and every other future as it was, and no later step changes the
\* outcome of a settled future.
C15_CancelAll ==
  [][/\ last'.op = "cancelAllExports" =>
          /\ pendingExports' = EmptyMap
          /\ timers' = {}
          /\ \A requestId \in DOMAIN futures :
               IF requestId \in DOMAIN pendingExports
               THEN /\ futures'[requestId].status = "rejected"
                    /\ futures'[requestId].value = [error |-> "Export cancelled"]
               ELSE futures'[requestId] = futures[requestId]
     /\ SettledStaysSettled]_vars

\* Two exports were pending and cancelAllExports rejected both
C15_Witness ==
  /\ last.op = "cancelAllExports"
  /\ DOMAIN futures = RequestIds
  /\ \A requestId \in RequestIds :
       /\ futures[requestId].status = "rejected"
       /\ futures[requestId].value = [error |-> "Export cancelled"]

\* C16: an accepted requestExport registers an id that has no pending entry
\* and keeps every other entry, timer and future; a response or a timeout for
\* one id leaves the entry, the timer and the future of every other id as
\* they were.
C16_IndependentRequests ==
  [][/\ (last'.op = "requestExport" /\ last'.threw = Undefined) =>
          /\ last'.requestId \notin DOMAIN pendingExports
          /\ last'.requestId \in DOMAIN pendingExports'
          /\ last'.requestId \in timers'
          /\ \A other \in DOMAIN pendingExports :
               /\ other \in DOMAIN pendingExports'
               /\ pendingExports'[other] = pendingExports[other]
               /\ (other \in timers') = (other \in timers)
               /\ futures'[other] = futures[other]
     /\ last'.op \in {"handleExportResponse", "exportTimeout"} =>
          \A other \in DOMAIN futures \ {last'.requestId} :
            /\ (other \in DOMAIN pendingExports') = (other \in DOMAIN pendingExports)
            /\ (other \in timers') = (other \in timers)
            /\ futures'[other] = futures[other]
    ]_vars

\* Two exports were requested of one connection's room; the later one has
\* been resolved while the earlier one is still pending with its timer armed
C16_Witness ==
  /\ last.op = "handleExportResponse"
  /\ \E c \in Conns :
       /\ Len(outbox[c]) = 2
       /\ LET first == outbox[c][1].json.payload.requestId
              second == outbox[c][2].json.payload.requestId
          IN /\ second = last.requestId
             /\ futures[second].status = "resolved"
             /\ futures[first].status = "pending"
             /\ first \in DOMAIN pendingExports
             /\ first \in timers

(***************************************************************************)
(* Claims about switching rooms                                            *)
(***************************************************************************)
\* C17: when a connection joins room B right after it joined a different
\* room A, the registry names B as its room, B holds it, and A has one member
\* less than before (and is gone when that was its last member).
C17_JoinSwitchesRoom ==
  [][(/\ last.op = "joinRoom"
      /\ last'.op = "joinRoom"
      /\ last'.ws = last.ws
      /\ last'.sceneId # last.sceneId) =>
       /\ MapGet(clientRooms', last'.ws) = last'.sceneId
       /\ last'.sceneId \in DOMAIN rooms'
       /\ last'.ws \in rooms'[last'.sceneId]
       /\ (IF last.sceneId \in DOMAIN rooms'
           THEN Cardinality(rooms'[last.sceneId]) ELSE 0)
            = getRoomClientCount(last.sceneId) - 1
       /\ last.sceneId \in DOMAIN rooms' => rooms'[last.sceneId] # {}
    ]_vars

(***************************************************************************)
(* Claims about the cached scene across joins and leaves                   *)
(***************************************************************************)
\* C18: a join, a leave and a disconnect leave every cached scene as it was,
\* and a join of a room with a cached scene sends the joiner exactly that
\* scene (and nothing when no scene is cached), whether or not the room
\* existed when it joined.
C18_LeaveKeepsSnapshot ==
  [][/\ last'.op \in {"onJoin", "leaveCurrentRoom", "unregisterClient"} =>
          scenes' = scenes
     /\ last'.op = "onJoin" =>
          /\ outbox'[last'.ws] =
               IF last'.sceneId \in DOMAIN scenes
               THEN Append(outbox[last'.ws],
                           JSONStringify(SceneSyncMessage(scenes[last'.sceneId])))
               ELSE outbox[last'.ws]
          /\ \A c \in Conns \ {last'.ws} : outbox'[c] = outbox[c]
    ]_vars

\* A connection joined a room that was no longer in the registry and was sent
\* the cached scene, whose elements the other connection had been sent as a
\* member of that room when they were written
C18_Witness ==
  /\ last.op = "onJoin"
  /\ last.created
  /\ last.sceneId \in DOMAIN scenes
  /\ scenes[last.sceneId].elements # << >>
  /\ outbox[last.ws] = <<JSONStringify(SceneSyncMessage(scenes[last.sceneId]))>>
  /\ \E c \in SessionConns \ {last.ws} :
       outbox[c] = <<JSONStringify(SceneSyncMessage(
                       SyncedScene([elements |-> scenes[last.sceneId].elements])))>>

(***************************************************************************)
(* Claims about delivery when a send fails or sets off a join or a leave   *)
(***************************************************************************)
\* C19: when the send to a member throws, a broadcast still sends the message
\* to every other recipient and raises nothing to its caller.
C19_BestEffortDelivery ==
  [][(last'.op \in {"broadcastToRoom", "broadcast"} /\ last'.effect = NoEffect) =>
       /\ ~last'.threw
       /\ \A c \in (IF last'.op = "broadcast"
                    THEN UNION {rooms[r] : r \in DOMAIN rooms}
                    ELSE Recipients(rooms, last'.sceneId, last'.exclude))
                   \ last'.throwing :
            outbox'[c] = Append(outbox[c], JSONStringify(last'.message))
    ]_vars

\* C20: a broadcast to a room sends the message to no connection more than
\* once and to no connection that was not a member of the room when the call
\* started, whatever join or leave its sends set off.
C20_SnapshotIteration ==
  [][(last'.op = "broadcastToRoom" /\ last'.throwing = {}) =>
       \A c \in Conns :
         /\ outbox'[c] \in {outbox[c], Append(outbox[c], JSONStringify(last'.message))}
         /\ c \notin Recipients(rooms, last'.sceneId, last'.exclude) =>
              outbox'[c] = outbox[c]
    ]_vars

(***************************************************************************)
(* Claims about soft deletion and about undo and redo on empty stacks      *)
(***************************************************************************)
\* The ids of the elements of a sequence
IdsOf(es) == {es[i].id : i \in 1..Len(es)}

\* C21: an accepted deleteElement flags the element it found and increments
\* its version, keeps its id and position and every other element, so that
\* getAllElements still holds the element and getElements does not, and the
\* set of element ids of the scene is as before; a rejected one changes
\* nothing.
C21_SoftDelete ==
  [][(design = "multi" /\ last'.op = "deleteElement") =>
       LET old == Stored(scenes, last'.sceneId)
           new == Stored(scenes', last'.sceneId)
           index == FindIndex(old, last'.elementId)
       IN IF last'.ok
          THEN /\ index > 0
               /\ new = ReplaceAt(old, index,
                                  [old[index] EXCEPT !.isDeleted = TRUE,
                                                     !.version = @ + 1])
               /\ new[index].id = last'.elementId
               /\ \A i \in 1..Len(getElements(scenes', last'.sceneId)) :
                    getElements(scenes', last'.sceneId)[i] # new[index]
               /\ IdsOf(new) = IdsOf(old)
          ELSE scenes' = scenes
    ]_vars

\* The first of two elements was deleted: both are stored, in place, and
\* only the second is read by getElements
C21_Witness ==
  /\ design = "multi"
  /\ last.op = "deleteElement"
  /\ last.ok
  /\ LET es == Stored(scenes, last.sceneId) IN
     /\ Len(es) = 2
     /\ es[1].id = last.elementId
     /\ es[1].isDeleted
     /\ es[2].id # last.elementId
     /\ getElements(scenes, last.sceneId) = <<es[2]>>

\* C24: undo with an empty undo stack returns false and changes neither the
\* scene nor a stack, and so does redo with an empty redo stack; a successful
\* undo pushes the current elements and view state onto the redo stack and
\* restores the entry it popped, and a successful redo does the same with the
\* stacks exchanged.
C24_UndoRedoOnEmptyStacks ==
  [][design = "single" =>
       /\ last'.op = "undo" =>
            IF historyStack = << >>
            THEN /\ ~last'.ok
                 /\ UNCHANGED <<elements, appState, files, historyStack, redoStack>>
            ELSE /\ last'.ok
                 /\ redoStack' = Append(redoStack, Snapshot(Single, now))
                 /\ historyStack' = Pop(historyStack)
                 /\ elements' = historyStack[Len(historyStack)].elements
                 /\ appState' = historyStack[Len(historyStack)].appState
       /\ last'.op = "redo" =>
            IF redoStack = << >>
            THEN /\ ~last'.ok
                 /\ UNCHANGED <<elements, appState, files, historyStack, redoStack>>
            ELSE /\ last'.ok
                 /\ historyStack' = Append(historyStack, Snapshot(Single, now))
                 /\ redoStack' = Pop(redoStack)
                 /\ elements' = redoStack[Len(redoStack)].elements
                 /\ appState' = redoStack[Len(redoStack)].appState
    ]_vars

\* An undo that found the undo stack empty after an earlier undo had emptied
\* it, and left the redo entry and the scene in place
C24_Witness ==
  /\ design = "single"
  /\ last.op = "undo"
  /\ ~last.ok
  /\ historyStack = << >>
  /\ redoStack # << >>
  /\ last.before.redoCount = Len(redoStack)
  /\ last.before.elements = elements

(***************************************************************************)
(* Claims about partial updates and reads of the multi-room store          *)
(***************************************************************************)
\* new is old with the keys of partial set to partial's values
MergedByKey(old, partial, new) ==
  /\ DOMAIN new = DOMAIN old \cup DOMAIN partial
  /\ \A k \in DOMAIN new :
       new[k] = IF k \in DOMAIN partial THEN partial[k] ELSE old[k]

\* C22: updateScene stores the partial's element sequence when it has one and
\* keeps the stored one otherwise, sets exactly the keys of the partial's
\* appState and files in the stored maps and keeps every other key, and leaves
\* a part whose field is absent as it was; addFiles merges its files the same
\* way; no other scene changes.
C22_UpdateSceneMerges ==
  [][(design = "multi" /\ last'.op \in {"updateScene", "addFiles"}) =>
       LET sceneId == last'.sceneId
           old == IF sceneId \in DOMAIN scenes THEN scenes[sceneId] ELSE EmptyScene
           data == IF last'.op = "updateScene" THEN last'.data
                   ELSE [files |-> last'.files]
       IN /\ sceneId \in DOMAIN scenes'
          /\ scenes'[sceneId].elements =
               IF "elements" \in DOMAIN data THEN data.elements ELSE old.elements
          /\ IF "appState" \in DOMAIN data
             THEN MergedByKey(old.appState, data.appState, scenes'[sceneId].appState)
             ELSE scenes'[sceneId].appState = old.appState
          /\ IF "files" \in DOMAIN data
             THEN MergedByKey(old.files, data.files, scenes'[sceneId].files)
             ELSE scenes'[sceneId].files = old.files
          /\ \A other \in DOMAIN scenes' \ {sceneId} :
               other \in DOMAIN scenes /\ scenes'[other] = scenes[other]
    ]_vars

\* An update carrying one view-state key found another key set to a
\* non-default value and a file stored, and kept both
C22_Witness ==
  /\ last.op = "updateScene"
  /\ last.data = [appState |-> [gridSize |-> 20]]
  /\ scenes[last.sceneId].appState
       = [viewBackgroundColor |-> "#000000", gridSize |-> 20]
  /\ scenes[last.sceneId].files = [f1 |-> "jpg", f2 |-> "png"]
  /\ scenes[last.sceneId].elements # << >>

\* C23 as claimed: every read of a scene that has never been written,
\* getScene included, yields the empty default scene or its part, and no read
\* changes the store.
C23_ReadYieldsDefault ==
  /\ [](( last.op = "read" /\ last.sceneId \notin DOMAIN scenes) =>
          /\ last.scene = EmptyScene
          /\ last.response = [success |-> TRUE, data |-> EmptyScene]
          /\ last.elements = << >>
          /\ last.allElements = << >>
          /\ last.appState = DefaultAppState
          /\ last.files = EmptyMap)
  /\ [][last'.op = "read" => scenes' = scenes]_vars

\* C23 as amended: for a scene that has never been written the GET route
\* answers with the empty default scene and getElements, getAllElements,
\* getAppState and getFiles return its parts, while getScene returns null; no
\* read changes the store or creates an entry.
C23_RouteAndGettersYieldDefault ==
  /\ [](( last.op = "read" /\ last.sceneId \notin DOMAIN scenes) =>
          /\ last.scene = Null
          /\ last.response = [success |-> TRUE, data |-> EmptyScene]
          /\ last.elements = << >>
          /\ last.allElements = << >>
          /\ last.appState = DefaultAppState
          /\ last.files = EmptyMap)
  /\ [][last'.op = "read" => scenes' = scenes]_vars

\* A scene that was never written was read while another scene was stored
C23_Witness ==
  /\ last.op = "read"
  /\ last.sceneId \notin DOMAIN scenes
  /\ DOMAIN scenes # {}
  /\ last.response.data = EmptyScene

(***************************************************************************)
(* Claims about the element routes                                         *)
(***************************************************************************)
\* C25: a PATCH or DELETE that names an element id the room's scene does not
\* hold answers 404, leaves the store as it was and sends nothing to any
\* connection.
C25_UnknownElementNotFound ==
  [][(/\ last'.op \in {"patchElement", "deleteElementRoute"}
      /\ FindIndex(Stored(scenes, last'.sceneId), last'.elementId) = 0) =>
       /\ last'.status = 404
       /\ scenes' = scenes
       /\ outbox' = outbox
    ]_vars

\* A request named an element missing from a scene that holds another
\* element and whose room has both connections: 404, and no send log grew
C25_Witness ==
  /\ last.op \in {"patchElement", "deleteElementRoute"}
  /\ last.status = 404
  /\ Stored(scenes, last.sceneId) # << >>
  /\ last.sceneId \in DOMAIN rooms
  /\ rooms[last.sceneId] = ApiConns
  /\ \A c \in ApiConns : outbox[c] = << >>

(***************************************************************************)
(* Claims about inbound frames                                             *)
(***************************************************************************)
\* C26: a frame that cannot be parsed, has an unrecognized type, has no
\* payload where its type needs one, or (a join) has a payload without the
\* sceneId it needs, changes neither the registry nor a scene nor the pending
\* exports and sends nothing.
C26_MalformedDropped ==
  [][(\/ last'.op = "dropped"
      \/ last'.op = "onJoin" /\ last'.sceneId = Undefined) =>
       /\ UNCHANGED <<rooms, clientRooms, scenes>>
       /\ UNCHANGED <<pendingExports, timers, futures, outbox>>
    ]_vars

(***************************************************************************)
(* Claims about what a join and a scene update send                        *)
(***************************************************************************)
\* s is an initial part of t
IsPrefix(s, t) == Len(s) <= Len(t) /\ SubSeq(t, 1, Len(s)) = s

C28_SceneUpdateExcludesSender ==
  [][last'.op = "onSceneUpdate" =>
       LET sceneId == last'.payload.sceneId
           sceneData == SceneDataOf(last'.payload)
       IN /\ sceneId \in DOMAIN scenes'
          /\ "elements" \in DOMAIN sceneData =>
               scenes'[sceneId].elements = sceneData.elements
          /\ \A c \in Conns :
               outbox'[c] =
                 IF /\ sceneId \in DOMAIN rooms
                    /\ c \in rooms[sceneId]
                    /\ c # last'.ws
                 THEN Append(outbox[c],
                             JSONStringify(SceneSyncMessage(SyncedScene(sceneData))))
                 ELSE outbox[c]
    ]_vars

\* A member of a room of two sent an update: the other member was sent the
\* scene_sync, the sender nothing, and the cache holds the update
C28_Witness ==
  /\ last.op = "onSceneUpdate"
  /\ last.payload.sceneId \in DOMAIN rooms
  /\ rooms[last.payload.sceneId] = SessionConns
  /\ outbox[last.ws] = << >>
  /\ scenes[last.payload.sceneId].elements = last.payload.elements
  /\ \A c \in SessionConns \ {last.ws} :
       outbox[c] = <<JSONStringify(SceneSyncMessage(
                       SyncedScene(SceneDataOf(last.payload))))>>

(***************************************************************************)
(* Room commands: refresh, undo and redo broadcast one message to a room   *)
(***************************************************************************)
MaxLog == 2

UndoMessage == [type |-> "undo"]
RedoMessage == [type |-> "redo"]

\* refresh(sceneId), undo(sceneId), redo(sceneId):
\* this.broadcastToRoom(sceneId, message)
Command(sceneId, message) ==
  /\ \A c \in Recipients(rooms, sceneId, Undefined) : Len(outbox[c]) < MaxLog
  /\ outbox' = broadcastToRoom(outbox, rooms, sceneId, message, Undefined)
  /\ last' = [op |-> "command", sceneId |-> sceneId, message |-> message]
  /\ UNCHANGED <<rooms, clientRooms, pendingExports, timers, futures>>
  /\ UNCHANGED storeVars

RefreshRoom(sceneId) == Command(sceneId, RefreshMessage)
UndoRoom(sceneId) == Command(sceneId, UndoMessage)
RedoRoom(sceneId) == Command(sceneId, RedoMessage)

OrderConns == {"c1", "c2"}
OrderRooms == {"A", "B"}

NextOrder ==
  \/ \E sceneId \in OrderRooms, ws \in OrderConns : JoinRoom(sceneId, ws)
  \/ \E ws \in OrderConns : LeaveCurrentRoom(ws)
  \/ \E sceneId \in OrderRooms : RefreshRoom(sceneId)
  \/ \E sceneId \in OrderRooms : UndoRoom(sceneId)
  \/ \E sceneId \in OrderRooms : RedoRoom(sceneId)

SpecOrder == Init /\ [][NextOrder]_vars

(***************************************************************************)
(* Claims about the order of room broadcasts and about export requests     *)
(***************************************************************************)
\* C29: messages broadcast to one room reach each member in the order of
\* the broadcasts: a broadcast to room R puts its message at the end of what
\* every member of R has been sent and sends nothing to anyone else, and no
\* step removes or reorders what a connection has been sent, so a member of R
\* for two broadcasts has the first message before the second.
C29_RoomOrder ==
  [][/\ \A c \in Conns : IsPrefix(outbox[c], outbox'[c])
     /\ last'.op = "command" =>
          \A c \in Conns :
            outbox'[c] =
              IF last'.sceneId \in DOMAIN rooms /\ c \in rooms[last'.sceneId]
              THEN Append(outbox[c], JSONStringify(last'.message))
              ELSE outbox[c]
    ]_vars

\* Both connections are members of one room and have been sent a refresh and
\* then an undo, the undo being the broadcast just made to their room
C29_Witness ==
  /\ last.op = "command"
  /\ last.message = UndoMessage
  /\ last.sceneId \in DOMAIN rooms
  /\ rooms[last.sceneId] = OrderConns
  /\ \A c \in OrderConns :
       outbox[c] = <<JSONStringify(RefreshMessage), JSONStringify(UndoMessage)>>

\* C30 as claimed: an accepted requestExport for a room sends the
\* export_request to exactly one member of the room.
C30_ExactlyOnePeerAsked ==
  [][(last'.op = "requestExport" /\ last'.threw = Undefined) =>
       Cardinality({c \in Conns : outbox'[c] # outbox[c]}) = 1
    ]_vars

(***************************************************************************)
(* Command routes of the multi-room API: UI control and history commands   *)
(***************************************************************************)
HistoryClearMessage == [type |-> "history_clear"]
ScrollToMessage(target) == [type |-> "scroll_to", payload |-> [target |-> target]]
SetActiveToolMessage(tool, options) ==
  [type |-> "set_active_tool", payload |-> [tool |-> tool, options |-> options]]
ToggleSidebarMessage(name, open) ==
  [type |-> "toggle_sidebar", payload |-> [name |-> name, open |-> open]]
SetToastMessage(toast) == [type |-> "set_toast", payload |-> toast]

\* scene.elements.find((el) => el.id === elementId); Null for undefined
getElementById(sc, sceneId, elementId) ==
  IF sceneId \notin DOMAIN sc THEN Null
  ELSE IF FindIndex(sc[sceneId].elements, elementId) = 0 THEN Null
  ELSE sc[sceneId].elements[FindIndex(sc[sceneId].elements, elementId)]

PostCommand_ResetScene(command, sceneId, message) ==
  Route(resetScene(scenes, sceneId),
        broadcastToRoom(outbox, rooms, sceneId, message, Undefined),
        [op |-> "postCommand", command |-> command, sceneId |-> sceneId,
         message |-> message, status |-> 200, response |-> [success |-> TRUE]])

\* commandService.<command>(sceneId, ...); return c.json({ success: true })
PostCommand(command, sceneId, message) ==
  Route(scenes, broadcastToRoom(outbox, rooms, sceneId, message, Undefined),
        [op |-> "postCommand", command |-> command, sceneId |-> sceneId,
         message |-> message, status |-> 200, response |-> [success |-> TRUE]])

\* A route that answers without calling the command service
Refuse(command, sceneId, error) ==
  Route(scenes, outbox,
        [op |-> "refused", command |-> command, sceneId |-> sceneId,
         status |-> 404, response |-> [success |-> FALSE, error |-> error]])

\* body.elementIds.map(getElementById).filter((el) => el !== undefined)
RECURSIVE FoundElements(_, _, _)
FoundElements(sc, sceneId, elementIds) ==
  IF elementIds = << >> THEN << >>
  ELSE LET el == getElementById(sc, sceneId, Head(elementIds))
           rest == FoundElements(sc, sceneId, Tail(elementIds))
       IN IF el = Null THEN rest ELSE <<el>> \o rest

\* POST /scene/:sceneId/scroll-to
PostScrollTo(sceneId, body) ==
  IF "elementId" \in DOMAIN body
  THEN IF getElementById(scenes, sceneId, body.elementId) = Null
       THEN Refuse("scroll-to", sceneId, "Element not found")
       ELSE PostCommand("scroll-to", sceneId,
              ScrollToMessage(getElementById(scenes, sceneId, body.elementId)))
  ELSE IF "elementIds" \in DOMAIN body /\ Len(body.elementIds) > 0
  THEN IF FoundElements(scenes, sceneId, body.elementIds) = << >>
       THEN Refuse("scroll-to", sceneId, "No elements found")
       ELSE PostCommand("scroll-to", sceneId,
              ScrollToMessage(FoundElements(scenes, sceneId, body.elementIds)))
  ELSE PostCommand("scroll-to", sceneId, ScrollToMessage(getElements(scenes, sceneId)))

\* POST /scene/:sceneId/command/set-active-tool
PostSetActiveTool(sceneId, tool, options) ==
  PostCommand("set-active-tool", sceneId, SetActiveToolMessage(tool, options))

\* POST /scene/:sceneId/command/toggle-sidebar
PostToggleSidebar(sceneId, name, open) ==
  PostCommand("toggle-sidebar", sceneId, ToggleSidebarMessage(name, open))

\* POST /scene/:sceneId/command/set-toast
PostSetToast(sceneId, toast) == PostCommand("set-toast", sceneId, SetToastMessage(toast))

\* POST /scene/:sceneId/command/refresh
PostRefresh(sceneId) == PostCommand("refresh", sceneId, RefreshMessage)

\* POST /scene/:sceneId/undo
PostUndo(sceneId) == PostCommand("undo", sceneId, UndoMessage)

\* POST /scene/:sceneId/redo
PostRedo(sceneId) == PostCommand("redo", sceneId, RedoMessage)

\* POST /scene/:sceneId/history/clear
PostHistoryClear(sceneId) == PostCommand("history-clear", sceneId, HistoryClearMessage)

ScrollBodies == {EmptyMap, [elementId |-> "a"], [elementIds |-> <<"b", "a">>]}

NextCommands ==
  \/ \E sceneId \in StoreScenes, ws \in ApiConns : JoinRoom(sceneId, ws)
  \/ PostElement("A", NewElement("a", 1))
  \/ RequestExport("A", "png")
  \/ \E sceneId \in StoreScenes, body \in ScrollBodies : PostScrollTo(sceneId, body)
  \/ \E sceneId \in StoreScenes : PostSetActiveTool(sceneId, "rectangle", Undefined)
  \/ \E sceneId \in StoreScenes : PostToggleSidebar(sceneId, "library", TRUE)
  \/ \E sceneId \in StoreScenes : PostSetToast(sceneId, [message |-> "saved"])
  \/ \E sceneId \in StoreScenes : PostRefresh(sceneId)
  \/ \E sceneId \in StoreScenes : PostUndo(sceneId)
  \/ \E sceneId \in StoreScenes : PostRedo(sceneId)
  \/ \E sceneId \in StoreScenes : PostHistoryClear(sceneId)

SpecCommands == Init /\ [][NextCommands]_vars

\* The message type each command sends
CommandType ==
  [c \in {"undo", "redo", "history-clear", "set-active-tool", "toggle-sidebar",
          "set-toast", "refresh", "scroll-to"} |->
     CASE c = "undo" -> "undo"
       [] c = "redo" -> "redo"
       [] c = "history-clear" -> "history_clear"
       [] c = "set-active-tool" -> "set_active_tool"
       [] c = "toggle-sidebar" -> "toggle_sidebar"
       [] c = "set-toast" -> "set_toast"
       [] c = "refresh" -> "refresh"
       [] c = "scroll-to" -> "scroll_to"]

\* C31: a multi-room undo, redo, history-clear, set-active-tool,
\* toggle-sidebar, set-toast, refresh or scroll-to command for room R sends
\* one message of the command's type to every member of R and to nobody else,
\* leaves the cached scenes, the registry and the pending exports unchanged,
\* and its route answers success whether or not R has members; the seven
\* command routes other than scroll-to always reach the command.
C31_CommandsArePureFanOut ==
  [][/\ last'.op = "postCommand" =>
          /\ last'.message.type = CommandType[last'.command]
          /\ \A c \in Conns :
               outbox'[c] =
                 IF last'.sceneId \in DOMAIN rooms /\ c \in rooms[last'.sceneId]
                 THEN Append(outbox[c], JSONStringify(last'.message))
                 ELSE outbox[c]
          /\ UNCHANGED <<scenes, rooms, clientRooms, pendingExports, timers, futures>>
          /\ last'.status = 200
          /\ last'.response = [success |-> TRUE]
     /\ last'.op = "refused" => last'.command = "scroll-to"
    ]_vars

\* A toast command went to a room of two while a scene was cached: both
\* members were sent it
C31_Witness ==
  /\ last.op = "postCommand"
  /\ last.command = "set-toast"
  /\ last.sceneId \in DOMAIN rooms
  /\ rooms[last.sceneId] = ApiConns
  /\ \A c \in ApiConns : outbox[c] # << >> /\
       outbox[c][Len(outbox[c])] = JSONStringify(last.message)
  /\ scenes # EmptyMap

(***************************************************************************)
(* Single-room server: one client set, one scene with history              *)
(* The single-room CommandService keeps one Set wsClients; the model keeps *)
(* it in rooms under the key "wsClients".                                  *)
(***************************************************************************)
WsClientsKey == "wsClients"
wsClients == IF WsClientsKey \in DOMAIN rooms THEN rooms[WsClientsKey] ELSE {}

\* getScene(): { elements: this.getElements(), appState, files }
Single_getScene(st) ==
  [elements |-> NotDeleted(st.elements), appState |-> st.appState, files |-> st.files]

\* broadcast(message): for (const client of this.wsClients) client.send(data)
Single_broadcast(ob, clients, message) ==
  SendLoop(ob, clients, JSONStringify(message), Undefined)

\* A handler of the single-room server that ran to completion
SingleServerStep(st, clients, ob, readsClock, entry) ==
  /\ design = "single"
  /\ Len(st.elements) <= MaxElems
  /\ \A i \in 1..Len(st.elements) : st.elements[i].version <= MaxVersion
  /\ readsClock => now < MaxClock
  /\ \A c \in Conns : Len(ob[c]) <= MaxLog
  /\ elements' = st.elements
  /\ appState' = st.appState
  /\ files' = st.files
  /\ historyStack' = st.historyStack
  /\ redoStack' = st.redoStack
  /\ now' = IF readsClock THEN now + 1 ELSE now
  /\ rooms' = IF clients = {} /\ WsClientsKey \notin DOMAIN rooms
              THEN rooms ELSE MapSet(rooms, WsClientsKey, clients)
  /\ outbox' = ob
  /\ last' = Spread(entry, [before |-> Before])
  /\ UNCHANGED <<clientVars, design, scenes, maxSize>>
  /\ UNCHANGED <<clientRooms, pendingExports, timers, futures>>

\* onOpen: registerClient(ws); ws.send(scene_sync of getScene())
Single_OnOpen(ws) ==
  /\ ws \notin wsClients
  /\ SingleServerStep(Single, wsClients \cup {ws},
       Send(outbox, ws, JSONStringify(SceneSyncMessage(Single_getScene(Single)))),
       FALSE, [op |-> "onOpen", ws |-> ws])

Single_OnSceneUpdate_SaveHistory(ws, payload) ==
  /\ ws \in wsClients
  /\ SingleServerStep(Single_updateScene(Single, payload, TRUE, maxSize, now),
       wsClients, outbox, TRUE,
       [op |-> "wsSceneUpdate", ws |-> ws, payload |-> payload])

\* onMessage, case 'scene_update': sceneService.updateScene(payload, false)
Single_OnSceneUpdate(ws, payload) ==
  /\ ws \in wsClients
  /\ SingleServerStep(Single_updateScene(Single, payload, FALSE, maxSize, now),
       wsClients, outbox, FALSE,
       [op |-> "wsSceneUpdate", ws |-> ws, payload |-> payload])

\* POST /scene: updateScene(body); syncScene(getScene())
Single_PostScene(body) ==
  LET st == Single_updateScene(Single, body, TRUE, maxSize, now) IN
  SingleServerStep(st, wsClients,
    Single_broadcast(outbox, wsClients, SceneSyncMessage(Single_getScene(st))),
    TRUE, [op |-> "postScene", body |-> body])

\* POST /undo: if (sceneService.undo()) syncScene(getScene())
Single_PostUndo ==
  LET r == undo(Single, now) IN
  SingleServerStep(r.st, wsClients,
    IF r.ok
    THEN Single_broadcast(outbox, wsClients, SceneSyncMessage(Single_getScene(r.st)))
    ELSE outbox,
    r.ok, [op |-> "postUndo", ok |-> r.ok])

EchoConns == {"c1", "c2"}
EchoUpdates ==
  { [elements |-> <<NewElement("a", 1)>>],
    [elements |-> <<NewElement("b", 1)>>],
    [appState |-> [gridSize |-> 20]] }

InitEcho ==
  /\ InitRegistry
  /\ InitScenes
  /\ InitClient
  /\ design = "single"
  /\ maxSize \in 1..MaxHistory
  /\ last = [op |-> "init"]

NextEcho ==
  \/ \E ws \in EchoConns : Single_OnOpen(ws)
  \/ \E ws \in EchoConns, payload \in EchoUpdates : Single_OnSceneUpdate(ws, payload)
  \/ \E body \in EchoUpdates : Single_PostScene(body)
  \/ Single_PostUndo

SpecEcho == InitEcho /\ [][NextEcho]_vars

\* C32: a scene_update received over the WebSocket is applied without
\* history recording and leaves the undo stack and the redo stack as they
\* were, while the same update through POST /scene pushes onto the undo stack
\* one entry holding the elements and appState as they were before the update
\* (the oldest entry is dropped when the stack is full).
C32_EchoSkipsHistory ==
  [][/\ last'.op = "wsSceneUpdate" =>
          /\ historyStack' = historyStack
          /\ redoStack' = redoStack
          /\ "elements" \in DOMAIN last'.payload => elements' = last'.payload.elements
     /\ last'.op = "postScene" =>
          /\ historyStack' # << >>
          /\ historyStack'[Len(historyStack')] = Snapshot(Single, now)
          /\ Pop(historyStack') =
               IF Len(historyStack) + 1 > maxSize THEN Tail(historyStack)
               ELSE historyStack
          /\ "elements" \in DOMAIN last'.body => elements' = last'.body.elements
    ]_vars

\* A WebSocket scene_update changed the elements while both stacks held an
\* entry, and both stacks are as they were
C32_Witness ==
  /\ last.op = "wsSceneUpdate"
  /\ "elements" \in DOMAIN last.payload
  /\ last.before.elements # elements
  /\ historyStack # << >>
  /\ redoStack # << >>
  /\ Len(historyStack) = last.before.undoCount
  /\ Len(redoStack) = last.before.redoCount

(***************************************************************************)
(* Partial scene updates over the WebSocket                                *)
(***************************************************************************)
PartialPayloads ==
  { [sceneId |-> "A", elements |-> <<NewElement("a", 1)>>],
    [sceneId |-> "A", appState |-> [gridSize |-> 20]],
    [sceneId |-> "A", files |-> [f1 |-> "png"]],
    [sceneId |-> "A", elements |-> <<NewElement("b", 1)>>,
     appState |-> [viewBackgroundColor |-> "#ffffff"], files |-> EmptyMap] }

NextPartial ==
  \/ \E ws \in SessionConns : OnJoin(ws, "A")
  \/ \E ws \in SessionConns : OnLeave(ws)
  \/ \E ws \in SessionConns, payload \in PartialPayloads : OnSceneUpdate(ws, payload)

SpecPartial == Init /\ [][NextPartial]_vars

\* C33 as claimed: after a scene_update for room R, the scene_sync sent to
\* the other members of R carries the scene the store now holds for R, also
\* when the update leaves out elements, appState or files.
C33_SyncEqualsStored ==
  [][last'.op = "onSceneUpdate" =>
       \A c \in Conns :
         outbox'[c] # outbox[c] =>
           outbox'[c][Len(outbox'[c])] =
             JSONStringify(SceneSyncMessage(scenes'[last'.payload.sceneId]))
    ]_vars

(***************************************************************************)
(* Invariants of the export correlator and of the registry                 *)
(***************************************************************************)
\* C34: the pending-export map holds exactly the requests whose future is
\* unsettled, each entry owns one armed timeout of its own, and no timeout is
\* armed for a request that is no longer in the map.
C34_PendingIsUnsettled ==
  /\ DOMAIN pendingExports =
       {requestId \in DOMAIN futures : futures[requestId].status = "pending"}
  /\ \A requestId \in DOMAIN pendingExports :
       pendingExports[requestId].timeout \in timers
  /\ \A r1, r2 \in DOMAIN pendingExports :
       pendingExports[r1].timeout = pendingExports[r2].timeout => r1 = r2
  /\ timers = {pendingExports[requestId].timeout : requestId \in DOMAIN pendingExports}

\* One request was answered and removed while another is still pending with
\* its timeout armed
C34_Witness ==
  \E r1, r2 \in DOMAIN futures :
    /\ futures[r1].status = "resolved"
    /\ futures[r2].status = "pending"
    /\ DOMAIN pendingExports = {r2}
    /\ timers = {pendingExports[r2].timeout}

\* C35 as claimed: the two maps of the registry agree: clientRooms maps
\* connection c to room R exactly when c is in the member set rooms[R], so the
\* member sets together hold as many connections as clientRooms has keys.
C35_MapsAgree ==
  /\ \A c \in Conns, R \in RoomIds \cup {Undefined} :
       (c \in DOMAIN clientRooms /\ clientRooms[c] = R)
         <=> (R \in DOMAIN rooms /\ c \in rooms[R])
  /\ DOMAIN rooms \subseteq RoomIds \cup {Undefined}


\* C36: in the history-keeping store the undo stack and the redo stack
\* together never hold more than maxSize entries; an undo that succeeds takes
\* one entry off the undo stack and puts one on the redo stack, and a redo that
\* succeeds does the reverse.
C36_HistoryDepth ==
  /\ [](design = "single" => Len(historyStack) + Len(redoStack) <= maxSize)
  /\ [][/\ (last'.op = "undo" /\ last'.ok) =>
             /\ Len(historyStack') = Len(historyStack) - 1
             /\ Len(redoStack') = Len(redoStack) + 1
        /\ (last'.op = "redo" /\ last'.ok) =>
             /\ Len(historyStack') = Len(historyStack) + 1
             /\ Len(redoStack') = Len(redoStack) - 1
       ]_vars

\* A redo succeeded after an undo with the stacks filled up to maxSize
C36_Witness ==
  /\ design = "single"
  /\ last.op = "redo"
  /\ last.ok
  /\ last.before.redoCount = 1
  /\ last.before.undoCount = maxSize - 1
  /\ Len(historyStack) = maxSize
  /\ redoStack = << >>

(***************************************************************************)
(* Messages from connections that are not members of the room they name    *)
(***************************************************************************)
MemberConns == {"c1", "c2"}
ResponsePayloads ==
  { [requestId |-> requestId, data |-> "<svg/>", mimeType |-> "image/svg+xml"] :
      requestId \in RequestIds }

NextMember ==
  \/ \E ws \in MemberConns, sceneId \in StoreScenes : OnJoin(ws, sceneId)
  \/ \E ws \in MemberConns :
       OnSceneUpdate(ws, [sceneId |-> "A", elements |-> <<NewElement("a", 1)>>])
  \/ RequestExport("A", "svg")
  \/ \E ws \in MemberConns, payload \in ResponsePayloads : OnExportResponse(ws, payload)

SpecMember == Init /\ [][NextMember]_vars

\* C37: the handler does not look at the sender's room: a scene_update
\* naming room R is stored for R and sent to the members of R other than the
\* sender whatever room the sender is in, an export_response for a pending
\* request resolves it whichever connection sent it, and neither changes the
\* registry.
C37_NoMembershipCheck ==
  [][/\ last'.op = "onSceneUpdate" =>
          LET sceneId == last'.payload.sceneId IN
          /\ scenes' = updateScene(scenes, sceneId, SceneDataOf(last'.payload))
          /\ \A c \in Recipients(rooms, sceneId, last'.ws) :
               outbox'[c] =
                 Append(outbox[c],
                        JSONStringify(SceneSyncMessage(
                          SyncedScene(SceneDataOf(last'.payload)))))
          /\ UNCHANGED <<rooms, clientRooms>>
     /\ (last'.op = "onExportResponse" /\ last'.pending) =>
          /\ futures'[last'.requestId].status = "resolved"
          /\ last'.requestId \notin DOMAIN pendingExports'
          /\ UNCHANGED <<rooms, clientRooms>>
    ]_vars

\* A connection in room B updated room A, whose member was sent the update
C37_Witness ==
  /\ last.op = "onSceneUpdate"
  /\ MapGet(clientRooms, last.ws) = "B"
  /\ last.payload.sceneId = "A"
  /\ "A" \in DOMAIN rooms
  /\ \E c \in rooms["A"] : outbox[c] # << >>
  /\ scenes["A"].elements = last.payload.elements

\* A connection in no room answered a pending export, which is resolved
C37_WitnessExport ==
  /\ last.op = "onExportResponse"
  /\ last.pending
  /\ last.ws \notin DOMAIN clientRooms
  /\ futures[last.requestId].status = "resolved"

(***************************************************************************)
(* The drawing client: its export_request handler and the way back         *)
(***************************************************************************)
ExportFormats == {"svg", "png", "json"}

\* The result and mimeType the handler computes when the export succeeds
Exported(format) ==
  CASE format = "svg" -> [data |-> "<svg/>", mimeType |-> "image/svg+xml"]
    [] format = "png" -> [data |-> "base64", mimeType |-> "image/png"]
    [] OTHER -> [data |-> "{scene}", mimeType |-> "application/json"]

ExportResponseMessage(requestId, data, mimeType) ==
  [type |-> "export_response",
   payload |-> [requestId |-> requestId, data |-> data, mimeType |-> mimeType]]

\* handlers.export_request: the message sent in the try block when the export
\* succeeded (ok), in the catch block when it threw
export_request_SilentOnFailure(payload, ok) ==
  IF ok
  THEN <<ExportResponseMessage(payload.requestId, Exported(payload.format).data,
                               Exported(payload.format).mimeType)>>
  ELSE << >>

export_request(payload, ok) ==
  IF ok
  THEN <<ExportResponseMessage(payload.requestId, Exported(payload.format).data,
                               Exported(payload.format).mimeType)>>
  ELSE <<ExportResponseMessage(payload.requestId, "", "application/json")>>

\* sendMessage: if (wsRef.current?.readyState === WebSocket.OPEN) send
sendMessage(up, ws, messages, open) ==
  IF open THEN [up EXCEPT ![ws] = @ \o messages] ELSE up

\* The client of connection ws handles the next message it received; ok: the
\* export did not throw; open: its socket is open when it sends
ClientHandle(ws, ok, open) ==
  /\ handled[ws] < Len(outbox[ws])
  /\ LET message == outbox[ws][handled[ws] + 1].json IN
     /\ uplink' = IF message.type = "export_request"
                  THEN sendMessage(uplink, ws, export_request(message.payload, ok), open)
                  ELSE uplink
     /\ last' = [op |-> "clientHandle", ws |-> ws, message |-> message,
                 ok |-> ok, open |-> open]
  /\ handled' = [handled EXCEPT ![ws] = @ + 1]
  /\ UNCHANGED regVars
  /\ UNCHANGED <<design, scenes, singleVars>>
  /\ UNCHANGED hookVars

\* The server reads the next frame of connection ws: onMessage, case
\* 'export_response'
ServerReceive(ws) ==
  /\ uplink[ws] # << >>
  /\ LET payload == Head(uplink[ws]).payload
         ex == handleExportResponse(Exports, payload.requestId, payload.data,
                                    payload.mimeType)
     IN /\ pendingExports' = ex.pendingExports
        /\ timers' = ex.timers
        /\ futures' = ex.futures
        /\ last' = [op |-> "serverReceive", ws |-> ws, payload |-> payload,
                    pending |-> payload.requestId \in DOMAIN pendingExports]
  /\ uplink' = [uplink EXCEPT ![ws] = Tail(@)]
  /\ UNCHANGED <<rooms, clientRooms, outbox>>
  /\ UNCHANGED <<design, scenes, singleVars>>
  /\ UNCHANGED <<handled, hookVars>>

AnswerConns == {"c1", "c2"}

NextAnswer ==
  \/ \E ws \in AnswerConns : JoinRoom("A", ws)
  \/ \E format \in ExportFormats : RequestExport("A", format)
  \/ \E ws \in AnswerConns, ok \in BOOLEAN, open \in BOOLEAN : ClientHandle(ws, ok, open)
  \/ \E ws \in AnswerConns : ServerReceive(ws)
  \/ \E requestId \in RequestIds : ExportTimeout(requestId)

SpecAnswer == Init /\ [][NextAnswer]_vars

maxReconnectAttempts == 5
MaxSockets == 8
MaxRuns == 2

Min(a, b) == IF a <= b THEN a ELSE b

\* Math.min(1000 * Math.pow(2, reconnectAttempts.current), 30000)
ReconnectDelay(attempts) == Min(1000 * 2^attempts, 30000)

Hook == [mounted |-> mounted, run |-> run, isClosingRef |-> isClosingRef,
         reconnectAttempts |-> reconnectAttempts, wsRef |-> wsRef,
         sockets |-> sockets, hookTimers |-> hookTimers,
         reconnectTimeoutRef |-> reconnectTimeoutRef]

Live(socket) == socket.state \in {"connecting", "open"}

\* connect() of effect run r: if (isClosingRef.current) return;
\* const ws = new WebSocket(wsUrl); wsRef.current = ws
connect(h, r) ==
  IF h.isClosingRef THEN h
  ELSE [h EXCEPT !.sockets = Append(@, [state |-> "connecting", run |-> r]),
                 !.wsRef = Len(h.sockets) + 1]

\* The body of the effect: isClosingRef.current = false;
\* const connectTimeout = setTimeout(() => connect(), 100)
effect(h) ==
  [h EXCEPT !.mounted = TRUE,
            !.run = @ + 1,
            !.isClosingRef = FALSE,
            !.hookTimers = @ \cup {[kind |-> "connect", of |-> h.run + 1, delay |-> 100]}]

\* ws.close(code, reason): a socket that is not yet closed starts closing
close(ss, i) ==
  [ss EXCEPT ![i] = [@ EXCEPT !.state = IF Live(ss[i]) THEN "closing" ELSE @]]

\* The cleanup the effect returns
cleanup(h) ==
  [h EXCEPT !.mounted = FALSE,
            !.isClosingRef = TRUE,
            !.hookTimers = {t \in @ : ~(t.kind = "connect" /\ t.of = h.run)}
                             \ {h.reconnectTimeoutRef},
            !.sockets = IF h.wsRef # 0 THEN close(@, h.wsRef) ELSE @,
            !.wsRef = 0]

\* ws.onopen: reconnectAttempts.current = 0
onopen(h) == [h EXCEPT !.reconnectAttempts = 0]

\* ws.onclose of socket i
onclose(h, i) ==
  IF h.isClosingRef THEN h
  ELSE IF h.reconnectAttempts < maxReconnectAttempts
  THEN LET t == [kind |-> "reconnect", of |-> i,
                 delay |-> ReconnectDelay(h.reconnectAttempts)]
       IN [h EXCEPT !.hookTimers = @ \cup {t}, !.reconnectTimeoutRef = t]
  ELSE h

\* The reconnect timer set by the onclose of socket t.of fires
reconnect(h, t) ==
  IF h.isClosingRef THEN h
  ELSE connect([h EXCEPT !.reconnectAttempts = @ + 1], h.sockets[t.of].run)

\* A step of the hook that leaves it in state h
HookStep(h, entry) ==
  /\ Len(h.sockets) <= MaxSockets
  /\ mounted' = h.mounted
  /\ run' = h.run
  /\ isClosingRef' = h.isClosingRef
  /\ reconnectAttempts' = h.reconnectAttempts
  /\ wsRef' = h.wsRef
  /\ sockets' = h.sockets
  /\ hookTimers' = h.hookTimers
  /\ reconnectTimeoutRef' = h.reconnectTimeoutRef
  /\ last' = entry
  /\ UNCHANGED regVars
  /\ UNCHANGED <<design, scenes, singleVars>>
  /\ UNCHANGED <<handled, uplink>>

\* The component mounts: the effect runs for the first time
Mount ==
  /\ run = 0
  /\ HookStep(effect(Hook), [op |-> "mount"])

\* The component unmounts: the cleanup runs
Unmount ==
  /\ mounted
  /\ HookStep(cleanup(Hook), [op |-> "unmount"])

\* url changes: the cleanup of the old effect run, then the effect again
UrlChange ==
  /\ mounted
  /\ run < MaxRuns
  /\ HookStep(effect(cleanup(Hook)), [op |-> "urlChange"])

\* The connect timer of an effect run fires
ConnectTimerFires(t) ==
  /\ t \in hookTimers
  /\ t.kind = "connect"
  /\ HookStep(connect([Hook EXCEPT !.hookTimers = @ \ {t}], t.of),
              [op |-> "connectTimer", timer |-> t, current |-> run])

\* A reconnect timer fires
ReconnectTimerFires(t) ==
  /\ t \in hookTimers
  /\ t.kind = "reconnect"
  /\ HookStep(reconnect([Hook EXCEPT !.hookTimers = @ \ {t}], t),
              [op |-> "reconnectTimer", timer |-> t, current |-> run])

\* The connection of socket i is established
SocketOpens(i) ==
  /\ i \in 1..Len(sockets)
  /\ sockets[i].state = "connecting"
  /\ HookStep(onopen([Hook EXCEPT !.sockets[i].state = "open"]),
              [op |-> "open", socket |-> i])

\* Socket i closes: the connection failed or was lost, or its close completed
SocketCloses(i) ==
  /\ i \in 1..Len(sockets)
  /\ sockets[i].state # "closed"
  /\ HookStep(onclose([Hook EXCEPT !.sockets[i].state = "closed"], i),
              [op |-> "close", socket |-> i, closing |-> isClosingRef,
               attempts |-> reconnectAttempts])

NextHook ==
  \/ Mount
  \/ Unmount
  \/ UrlChange
  \/ \E t \in hookTimers : ConnectTimerFires(t)
  \/ \E t \in hookTimers : ReconnectTimerFires(t)
  \/ \E i \in 1..MaxSockets : SocketOpens(i)
  \/ \E i \in 1..MaxSockets : SocketCloses(i)

SpecHook == Init /\ [][NextHook]_vars

\* C40 as claimed: at most one WebSocket of the hook is connecting or open
\* at any time, and once a cleanup has run no timer and no close event opens a
\* connection for the effect run it ended.
C40_AtMostOneLiveSocket ==
  /\ [](Cardinality({i \in 1..Len(sockets) : Live(sockets[i])}) <= 1)
  /\ [][Len(sockets') > Len(sockets) => sockets'[Len(sockets')].run = run']_vars


\* C39 as claimed: the reconnect loop is bounded: the counter of attempts
\* since the last successful open never passes maxReconnectAttempts, a close
\* schedules a reconnect only while the counter is below it, after a delay of
\* min(1000 * 2^counter, 30000) ms, a successful open resets the counter to 0,
\* and with the counter at maxReconnectAttempts no reconnect is scheduled.
C39_BoundedReconnect ==
  /\ [](reconnectAttempts <= maxReconnectAttempts)
  /\ [](reconnectAttempts >= maxReconnectAttempts =>
          \A t \in hookTimers : t.kind # "reconnect")
  /\ [][/\ last'.op = "open" => reconnectAttempts' = 0
        /\ \A t \in hookTimers' \ hookTimers :
             t.kind = "reconnect" =>
               /\ reconnectAttempts < maxReconnectAttempts
               /\ t.delay = Min(1000 * 2^reconnectAttempts, 30000)
       ]_vars

====
